---- MODULE Spec2Model ----
(***************************************************************************)
(* State-machine model of server.js: the per-user WhatsApp client         *)
(* registry (whatsappClients / clientStates / userWebhooks), the request  *)
(* handlers that create and tear down clients, the client event           *)
(* callbacks, the webhook relay and the shutdown handler.                 *)
(*                                                                         *)
(* Node runs every handler on one thread: the code between two awaits is  *)
(* one atomic step, and handlers interleave only at their awaits.  Each   *)
(* action below is one such step.  A handler activation is a record of    *)
(* procs holding its program counter and its local variables.  A call on  *)
(* the store (supabase) takes effect in the step that issues it; the      *)
(* handler's continuation after the await is a later step.                *)
(***************************************************************************)
EXTENDS Naturals, Integers, Sequences, FiniteSets, TLC

(***************************************************************************)
(* Bounds of the model: how many handler activations and signals one      *)
(* behaviour of each specification holds.                                 *)
(***************************************************************************)
MaxLifeOps == 4
MaxEventOps == 4
MaxRelayOps == 3
MaxConfigOps == 2
MaxSendOps == 3
MaxCallOps == 3
MaxSessionOps == 4
MaxErrorOps == 3
MaxIsolationOps == 3
MaxAuthOps == 3
MaxValidateOps == 2
MaxLimitOps == 3
MaxBootOps == 3
MaxCreateOps == 3
MaxCacheOps == 4

Users == {"u1", "u2"}

\* webhook_url values of a request body; "" is an absent (falsy) url
Urls == {"", "url1"}

\* webhook_enabled values of a request body that pass isBoolean():
\* true, false (or absent), and a truthy value the boolean column stores as
\* false (the string "false" or "0")
EnabledInputs == {"true", "false", "str_false"}

\* JavaScript truthiness of a webhook_enabled value
Truthy(e) == e \in {"true", "str_false"}

\* the value the boolean column webhook_enabled holds for `e || false`
ToColumn(e) == e = "true"

\* outcomes of an awaited call on the store: it resolves with data, it
\* resolves with {error}, or the promise rejects
StoreOutcomes == {"ok", "error", "throw"}

\* outcomes of fetch(webhookUrl): a response with its status, or a
\* rejection (network error)
FetchOutcomes == {"200", "500", "error"}

\* event payloads handed to sendToWebhook
Payloads == {"test", "message_received"}

\* JSON.stringify(webhookData)
JSONstringify(d) ==
    IF d = "test" THEN "{\"event\":\"test\"}"
    ELSE "{\"event\":\"message_received\"}"

\* `to` values that pass the validator of the public send endpoint, as the
\* pieces of the string: a bare number, and a group id that holds an '@'
Recipients == { << "123" >>, << "456", "@", "g.us" >> }

\* `secret` values of public send requests (non-empty)
SecretInputs == {1, 2}

\* pairing strings a qr event carries
QrCodes == {"qrA", "qrB"}

\* qrcode.toDataURL
toDataURL(q) == IF q = "qrA" THEN "data:qrA" ELSE "data:qrB"

\* what client.getChats() and chat.fetchMessages() report: the chats with
\* the timestamp of their last message, in the capability's order
ChatReports == { <<>>,
                 << [id |-> "c1", timestamp |-> 1],
                    [id |-> "c2", timestamp |-> 2] >> }

VARIABLES
    whatsappClients,   \* userId -> handle, 0 when the Map has no entry
    clientStates,      \* userId -> [present, qr, ready, chats]
    userWebhooks,      \* userId -> webhook url, "" when the Map has no entry
    whatsapp_sessions, \* the table whatsapp_sessions, one row per user_id
    webhook_logs,      \* the table webhook_logs, in insertion order
    clients,           \* every Client constructed so far, indexed by handle
    procs,             \* handler activations, in the order they started
    posts,             \* outbound fetch() calls, in the order they were made
    sent,              \* calls on clients made for requests, in order
    nextSecret,        \* number of secrets crypto.randomBytes has produced
    signals,           \* termination signals received
    exited,            \* process.exit() was called
    hits,              \* requests received per endpoint in the limiter window
    boot               \* the environment, app.listen() and the exit code

vars == << whatsappClients, clientStates, userWebhooks, whatsapp_sessions,
           webhook_logs, clients, procs, posts, sent, nextSecret, signals,
           exited, hits, boot >>

(***************************************************************************)
(* Values                                                                  *)
(***************************************************************************)
NoState == [present |-> FALSE, qr |-> "", ready |-> FALSE, chats |-> <<>>]

\* clientStates.set(userId, {qr: '', ready: false, chats: []})
FreshState == [present |-> TRUE, qr |-> "", ready |-> FALSE, chats |-> <<>>]

NoRow == [exists |-> FALSE, webhook_url |-> "", webhook_enabled |-> FALSE,
          webhook_secret |-> 0, is_connected |-> FALSE]

NoBody == [qr |-> "", ready |-> FALSE, secret |-> 0, chatId |-> <<>>,
           error |-> "", chats |-> <<>>, connected |-> FALSE]

\* a message text: the numbers of white-space characters before and after
\* its core, and the length of the core, which neither starts nor ends with
\* white space
NoText == [lead |-> 0, core |-> 0, trail |-> 0]

\* a handler activation before its first step
NewProc(kind, user) ==
    [kind |-> kind, user |-> user, pc |-> "start", client |-> 0,
     url |-> "", enabled |-> "false", secret |-> 0, to |-> <<>>,
     message |-> "", payload |-> "", qr |-> "", chats |-> <<>>,
     snap |-> NoRow, out |-> "", fetch |-> "", status |-> 0,
     body |-> NoBody, rejected |-> FALSE, token |-> "valid",
     text |-> NoText]

\* new Client({...}): not yet initialized, no listeners
NewClient(user) ==
    [owner |-> user, listening |-> FALSE, initialized |-> FALSE,
     logouts |-> 0, destroys |-> 0]

\* handler activations and signals so far
Started == Len(procs) + signals

\* a finished activation: its locals are gone; the record keeps what it
\* was (kind, user, handle, payload and fetch outcome) and how it ended
Finished(p) ==
    [NewProc(p.kind, p.user) EXCEPT !.pc = "done", !.client = p.client,
                                    !.payload = p.payload, !.fetch = p.fetch,
                                    !.status = p.status]

\* res.status(s).json(b): the activation ends with a response
Respond(p, s, b) == [Finished(p) EXCEPT !.status = s, !.body = b]

\* an async handler whose promise rejects with nobody awaiting it
Reject(p) == [Finished(p) EXCEPT !.rejected = TRUE]

\* the process serves requests and events: it is listening and has not
\* exited
Running == boot.listening /\ ~exited

(***************************************************************************)
(* The rate limiters of the send endpoints                                 *)
(***************************************************************************)

\* the endpoints whose requests are counted per limiter window
CountedKinds == {"send_message", "send_media", "send"}

\* no request in the current window
NoHits == [k \in CountedKinds |-> 0]

\* max of messageLimiter and of webhookLimiter
messageLimiterMax == 100

webhookLimiterMax == 50

\* the limiter in the middleware list of each route: messageLimiter on
\* POST /send-message, webhookLimiter on POST /webhook/send/:userId, none
\* on POST /send-media
Limiters ==
    [send_message |-> messageLimiterMax, send |-> webhookLimiterMax]

\* the limiter of the route has counted max requests of the caller in the
\* current window, so it answers the next one itself
OverBudget(kind) == kind \in DOMAIN Limiters /\ hits[kind] >= Limiters[kind]

\* one more request of the caller to an endpoint in the current window
Count(kind) ==
    IF kind \in CountedKinds
    THEN hits' = [hits EXCEPT ![kind] = @ + 1]
    ELSE UNCHANGED hits

\* the limiter's answer: 429 with its message
TooMany(p) == Respond(p, 429, [NoBody EXCEPT !.error = "rate limit exceeded"])

\* windowMs after the first request of a window the limiter's counter of
\* the caller is reset
WindowReset(kind) ==
    /\ Running
    /\ hits[kind] > 0
    /\ hits' = [hits EXCEPT ![kind] = 0]
    /\ UNCHANGED << boot,
                    whatsappClients, clientStates, userWebhooks,
                    whatsapp_sessions, webhook_logs, clients, procs, posts,
                    sent, nextSecret, signals, exited >>

(***************************************************************************)
(* authenticateUser                                                        *)
(***************************************************************************)

\* what the Authorization header of a request holds: nothing, a value
\* that does not start with 'Bearer ', a bearer token for which getUser
\* returns an error or no user, and a bearer token of a user
Tokens == {"none", "not_bearer", "rejected", "valid"}

\* !authHeader || !authHeader.startsWith('Bearer ')
MissingBearer(t) == t \in {"none", "not_bearer"}

\* a middleware that lets every request through
Denied_Never(t, o) == FALSE

\* the request is not passed on: no bearer token, `error || !user` after
\* getUser, or getUser threw (o)
Denied(t, o) == MissingBearer(t) \/ t = "rejected" \/ o = "throw"

\* res.status(401).json({error}) of the middleware
Unauthorized(p) ==
    [Respond(p, 401, [NoBody EXCEPT !.error = "unauthorized"])
        EXCEPT !.token = p.token]

\* authenticateUser up to `await supabase.auth.getUser(token)`; without a
\* bearer token it answers at once
Authenticate(u, t) ==
    /\ Running
    /\ LET p == [NewProc("auth", u) EXCEPT !.token = t] IN
       procs' = Append(procs, IF MissingBearer(t) /\ Denied(t, "ok")
                              THEN Unauthorized(p)
                              ELSE [p EXCEPT !.pc = "getUser"])
    /\ UNCHANGED << hits, boot,
                    whatsappClients, clientStates, userWebhooks,
                    whatsapp_sessions, webhook_logs, clients, posts, sent,
                    nextSecret, signals, exited >>

\* after getUser settled with o: answer 401, or set req.user and call
\* next(), which runs the route handler
AuthDone(i, o) ==
    /\ Running
    /\ procs[i].kind = "auth" /\ procs[i].pc = "getUser"
    /\ procs' = [procs EXCEPT ![i] =
                    IF Denied(@.token, o)
                    THEN Unauthorized(@)
                    ELSE [Finished(@) EXCEPT !.token = procs[i].token]]
    /\ UNCHANGED << hits, boot,
                    whatsappClients, clientStates, userWebhooks,
                    whatsapp_sessions, webhook_logs, clients, posts, sent,
                    nextSecret, signals, exited >>

(***************************************************************************)
(* getWhatsAppClient, reached through GET /qr                              *)
(***************************************************************************)

\* a registry lookup that never finds an entry
HasClient_Never(u) == FALSE

\* a registry lookup that always reports an entry
HasClient_Always(u) == TRUE

\* whatsappClients.has(userId)
HasClient(u) == whatsappClients[u] # 0

\* GET /qr up to the first await of getWhatsAppClient.  With an entry in
\* the registry the call returns it.  Otherwise it constructs a Client,
\* sets a fresh state record and issues the select on whatsapp_sessions.
GetQr(u, o) ==
    /\ Running
    /\ LET p == NewProc("qr", u) IN
       IF HasClient(u)
       THEN /\ procs' = Append(procs, [p EXCEPT !.pc = "respond",
                                                !.client = whatsappClients[u]])
            /\ UNCHANGED << clients, clientStates >>
       ELSE /\ clients' = Append(clients, NewClient(u))
            /\ clientStates' = [clientStates EXCEPT ![u] = FreshState]
            /\ procs' = Append(procs, [p EXCEPT !.pc = "loading",
                                                !.client = Len(clients) + 1,
                                                !.snap = whatsapp_sessions[u],
                                                !.out = o])
    /\ UNCHANGED << hits, boot,
                    whatsappClients, userWebhooks, whatsapp_sessions,
                    webhook_logs, posts, sent, nextSecret, signals, exited >>

\* what the router does with a route handler whose promise rejects.  The
\* repository pins no version of express: version 4 ignores the promise,
\* so no response is sent and the rejection is unhandled; version 5 passes
\* the error to its default error handler, which answers 500.
Frameworks == {"express4", "express5"}

\* the rest of getWhatsAppClient, after the select returned: load the
\* webhook, register the listeners, initialize the client and set it in
\* the registry.  A rejected select rejects getWhatsAppClient, which the
\* route handler does not catch: the outcome is the router's, f.
QrLoaded(i, f) ==
    /\ Running
    /\ procs[i].kind = "qr" /\ procs[i].pc = "loading"
    /\ LET p == procs[i]
           u == p.user
           session == p.snap
       IN
       IF p.out = "throw"
       THEN /\ procs' = [procs EXCEPT ![i] =
                  IF f = "express4"
                  THEN Reject([p EXCEPT !.snap = NoRow, !.out = ""])
                  ELSE Respond([p EXCEPT !.snap = NoRow, !.out = ""], 500,
                               [NoBody EXCEPT !.error = "failed"])]
            /\ UNCHANGED << userWebhooks, clients, whatsappClients >>
       ELSE /\ userWebhooks' =
                  IF session.exists /\ session.webhook_enabled
                     /\ session.webhook_url # ""
                  THEN [userWebhooks EXCEPT ![u] = session.webhook_url]
                  ELSE userWebhooks
            /\ clients' = [clients EXCEPT ![p.client].listening = TRUE,
                                          ![p.client].initialized = TRUE]
            /\ whatsappClients' = [whatsappClients EXCEPT ![u] = p.client]
            /\ procs' = [procs EXCEPT ![i].pc = "respond",
                                      ![i].snap = NoRow, ![i].out = ""]
    /\ UNCHANGED << hits, boot,
                    clientStates, whatsapp_sessions, webhook_logs, posts,
                    sent, nextSecret, signals, exited >>

\* GET /qr after `await getWhatsAppClient(userId)`: answer from clientStates
QrRespond(i) ==
    /\ Running
    /\ procs[i].kind = "qr" /\ procs[i].pc = "respond"
    /\ LET state == clientStates[procs[i].user] IN
       procs' = [procs EXCEPT ![i] =
                    Respond(@, 200, [NoBody EXCEPT !.qr = state.qr,
                                                   !.ready = state.ready])]
    /\ UNCHANGED << hits, boot,
                    whatsappClients, clientStates, userWebhooks,
                    whatsapp_sessions, webhook_logs, clients, posts, sent,
                    nextSecret, signals, exited >>

(***************************************************************************)
(* GET /chats                                                              *)
(***************************************************************************)

\* the handler has no await: without a state record it answers
\* {chats: [], connected: false}, otherwise the cached list and the flag
GetChats(u) ==
    /\ Running
    /\ LET state == clientStates[u] IN
       procs' = Append(procs,
                   Respond(NewProc("chats", u), 200,
                           IF ~state.present
                           THEN NoBody
                           ELSE [NoBody EXCEPT !.chats = state.chats,
                                               !.connected = state.ready]))
    /\ UNCHANGED << hits, boot,
                    whatsappClients, clientStates, userWebhooks,
                    whatsapp_sessions, webhook_logs, clients, posts, sent,
                    nextSecret, signals, exited >>

(***************************************************************************)
(* The client's event listeners registered by getWhatsAppClient           *)
(***************************************************************************)

\* a client emits events to its listeners once they are registered and
\* until it is destroyed
Emits(h) ==
    /\ h \in DOMAIN clients
    /\ clients[h].listening
    /\ clients[h].destroys = 0

\* client.on('qr'), up to `await qrcode.toDataURL(qr)`
OnQr(h, q) ==
    /\ Running
    /\ Emits(h)
    /\ procs' = Append(procs, [NewProc("on_qr", clients[h].owner) EXCEPT
                                  !.pc = "encode", !.client = h, !.qr = q])
    /\ UNCHANGED << hits, boot,
                    whatsappClients, clientStates, userWebhooks,
                    whatsapp_sessions, webhook_logs, clients, posts, sent,
                    nextSecret, signals, exited >>

\* state.qr = qrDataURL; state.ready = false
SetQr(state, qrDataURL) == [state EXCEPT !.qr = qrDataURL, !.ready = FALSE]

\* client.on('qr') after the await: write the pairing image into the
\* user's state record; without a record `state.qr = ...` throws
QrEncoded(i) ==
    /\ Running
    /\ procs[i].kind = "on_qr" /\ procs[i].pc = "encode"
    /\ LET u == procs[i].user
           state == clientStates[u]
       IN
       IF state.present
       THEN /\ clientStates' =
                  [clientStates EXCEPT ![u] = SetQr(state, toDataURL(procs[i].qr))]
            /\ procs' = [procs EXCEPT ![i] = Finished(@)]
       ELSE /\ procs' = [procs EXCEPT ![i] = Reject(@)]
            /\ UNCHANGED clientStates
    /\ UNCHANGED << hits, boot,
                    whatsappClients, userWebhooks, whatsapp_sessions,
                    webhook_logs, clients, posts, sent, nextSecret, signals,
                    exited >>

\* a ready listener that leaves the pairing image in place
SetReady_KeepsQr(state) == [state EXCEPT !.ready = TRUE]

\* state.ready = true; state.qr = ''
SetReady(state) == [state EXCEPT !.ready = TRUE, !.qr = ""]

\* client.on('ready'), up to the await inside loadChatsForUser
OnReady(h) ==
    /\ Running
    /\ Emits(h)
    /\ LET u == clients[h].owner
           state == clientStates[u]
           p == [NewProc("on_ready", u) EXCEPT !.client = h]
       IN
       IF state.present
       THEN /\ clientStates' = [clientStates EXCEPT ![u] = SetReady(state)]
            /\ procs' = Append(procs, [p EXCEPT !.pc = "chats"])
       ELSE /\ procs' = Append(procs, Reject(p))
            /\ UNCHANGED clientStates
    /\ UNCHANGED << hits, boot,
                    whatsappClients, userWebhooks, whatsapp_sessions,
                    webhook_logs, clients, posts, sent, nextSecret, signals,
                    exited >>

\* the position of the chat with the greatest timestamp, the first of them
\* on a tie
MaxPos(chats) ==
    CHOOSE i \in DOMAIN chats :
        /\ \A j \in DOMAIN chats : chats[j].timestamp <= chats[i].timestamp
        /\ \A j \in 1..(i - 1) : chats[j].timestamp < chats[i].timestamp

RECURSIVE SortChats(_)
\* formattedChats.sort((a, b) => b.timestamp - a.timestamp)
SortChats(chats) ==
    IF chats = <<>> THEN <<>>
    ELSE LET m == MaxPos(chats) IN
         << chats[m] >> \o SortChats(SubSeq(chats, 1, m - 1)
                                      \o SubSeq(chats, m + 1, Len(chats)))

\* loadChatsForUser after its awaits: store the sorted summaries; a failed
\* capability call and a missing state record end in its catch block
LoadedChats(u, report, o) ==
    IF o = "ok" /\ clientStates[u].present
    THEN [clientStates EXCEPT ![u].chats = SortChats(report)]
    ELSE clientStates

\* upsert({user_id, is_connected: true}) keyed by user_id
Upsert(u, o) ==
    IF o # "ok" THEN whatsapp_sessions
    ELSE [whatsapp_sessions EXCEPT ![u] =
             IF @.exists THEN [@ EXCEPT !.is_connected = TRUE]
             ELSE [NoRow EXCEPT !.exists = TRUE, !.is_connected = TRUE]]

\* update({is_connected: false}).eq('user_id', userId)
UpdateDisconnected(u, o) ==
    IF o = "ok" /\ whatsapp_sessions[u].exists
    THEN [whatsapp_sessions EXCEPT ![u].is_connected = FALSE]
    ELSE whatsapp_sessions

\* client.on('ready') after loadChatsForUser returned: the upsert of
\* is_connected, whose rejection nothing catches.  c is the outcome of the
\* capability calls, o of the upsert.
ReadyChatsLoaded(i, report, c, o) ==
    /\ Running
    /\ procs[i].kind = "on_ready" /\ procs[i].pc = "chats"
    /\ clientStates' = LoadedChats(procs[i].user, report, c)
    /\ whatsapp_sessions' = Upsert(procs[i].user, o)
    /\ procs' = [procs EXCEPT ![i] =
                    IF o = "throw" THEN Reject(@) ELSE Finished(@)]
    /\ UNCHANGED << hits, boot,
                    whatsappClients, userWebhooks, webhook_logs, clients,
                    posts, sent, nextSecret, signals, exited >>

\* both client.on('auth_failure') listeners (lines 298 and 350): they log
\* the failure and touch neither the Maps nor the store
OnAuthFailure(h) ==
    /\ Running
    /\ Emits(h)
    /\ procs' = Append(procs,
                       Finished([NewProc("on_auth_failure", clients[h].owner)
                                    EXCEPT !.client = h]))
    /\ UNCHANGED << hits, boot,
                    whatsappClients, clientStates, userWebhooks,
                    whatsapp_sessions, webhook_logs, clients, posts, sent,
                    nextSecret, signals, exited >>

\* a disconnect that leaves the chat list in place
SetDisconnected_KeepsChats(state) == [state EXCEPT !.ready = FALSE]

\* state.ready = false; state.chats = []
SetDisconnected(state) == [state EXCEPT !.ready = FALSE, !.chats = <<>>]

\* both client.on('disconnected') listeners.  The first (line 334) writes
\* the state record unguarded and awaits its update uncaught, the second
\* (line 359) guards both.  o1 and o2 are the outcomes of the two updates.
OnDisconnected(h, o1, o2) ==
    /\ Running
    /\ Emits(h)
    /\ LET u == clients[h].owner
           state == clientStates[u]
           p == [NewProc("on_disconnected", u) EXCEPT !.client = h]
       IN
       /\ clientStates' =
             IF state.present
             THEN [clientStates EXCEPT ![u] = SetDisconnected(state)]
             ELSE clientStates
       /\ whatsapp_sessions' =
             IF state.present /\ o1 = "ok"
             THEN UpdateDisconnected(u, o1)
             ELSE UpdateDisconnected(u, o2)
       /\ procs' = Append(procs,
                      IF ~state.present \/ o1 = "throw"
                      THEN Reject(p) ELSE Finished(p))
    /\ UNCHANGED << hits, boot,
                    whatsappClients, userWebhooks, webhook_logs, clients,
                    posts, sent, nextSecret, signals, exited >>

(***************************************************************************)
(* POST /logout-whatsapp                                                   *)
(***************************************************************************)

\* up to `await client.logout()`; without a client the handler answers
Logout(u) ==
    /\ Running
    /\ LET p == NewProc("logout", u)
           client == whatsappClients[u]
       IN
       IF client # 0
       THEN /\ clients' = [clients EXCEPT ![client].logouts = @ + 1]
            /\ procs' = Append(procs, [p EXCEPT !.pc = "logout",
                                                !.client = client])
       ELSE /\ procs' = Append(procs, Respond(p, 200, NoBody))
            /\ UNCHANGED clients
    /\ UNCHANGED << hits, boot,
                    whatsappClients, clientStates, userWebhooks,
                    whatsapp_sessions, webhook_logs, posts, sent, nextSecret,
                    signals, exited >>

\* a teardown that empties the whole registry
DeleteClient_All(u) == [v \in Users |-> 0]

\* a teardown that leaves the registry entry in place
DeleteClient_Keeps(u) == whatsappClients

\* whatsappClients.delete(userId)
DeleteClient(u) == [whatsappClients EXCEPT ![u] = 0]

\* steps 2 and 3: client.logout() resolved or threw (the error is
\* ignored); delete the three Map entries and issue the update of
\* is_connected, whose outcome is o
LogoutRemove(i, o) ==
    /\ Running
    /\ procs[i].kind = "logout" /\ procs[i].pc = "logout"
    /\ LET u == procs[i].user IN
       /\ whatsappClients' = DeleteClient(u)
       /\ clientStates' = [clientStates EXCEPT ![u] = NoState]
       /\ userWebhooks' = [userWebhooks EXCEPT ![u] = ""]
       /\ whatsapp_sessions' = UpdateDisconnected(u, o)
       /\ procs' = [procs EXCEPT ![i].pc = "update",
                                 ![i].out = IF o = "throw" THEN o ELSE "ok"]
    /\ UNCHANGED << hits, boot,
                    webhook_logs, clients, posts, sent, nextSecret, signals,
                    exited >>

\* step 4, after the update returned: schedule client.destroy() and answer.
\* A rejected update lands in the catch block, which only answers.
LogoutSchedule(i) ==
    /\ Running
    /\ procs[i].kind = "logout" /\ procs[i].pc = "update"
    /\ procs' = [procs EXCEPT ![i] =
                    IF @.out = "throw"
                    THEN Respond([@ EXCEPT !.out = ""], 200,
                                 [NoBody EXCEPT !.error = "warning"])
                    ELSE [@ EXCEPT !.pc = "timer", !.out = "",
                                   !.status = 200]]
    /\ UNCHANGED << hits, boot,
                    whatsappClients, clientStates, userWebhooks,
                    whatsapp_sessions, webhook_logs, clients, posts, sent,
                    nextSecret, signals, exited >>

\* the setTimeout callback: client.destroy(), errors swallowed
DestroyTimer(i) ==
    /\ Running
    /\ procs[i].kind = "logout" /\ procs[i].pc = "timer"
    /\ clients' = [clients EXCEPT ![procs[i].client].destroys = @ + 1]
    /\ procs' = [procs EXCEPT ![i] = Finished(@)]
    /\ UNCHANGED << hits, boot,
                    whatsappClients, clientStates, userWebhooks,
                    whatsapp_sessions, webhook_logs, posts, sent, nextSecret,
                    signals, exited >>

(***************************************************************************)
(* POST /webhook/config                                                    *)
(***************************************************************************)

\* crypto.randomBytes(32).toString('hex'): 256 random bits, modelled as a
\* value no earlier call has returned
randomBytes == nextSecret + 1

\* up to the await of the select of the user's row: the secret is
\* generated first.  o is the outcome of the select.
Configure(u, url, enabled, o) ==
    /\ Running
    /\ nextSecret' = nextSecret + 1
    /\ procs' = Append(procs, [NewProc("configure", u) EXCEPT
                                  !.pc = "select", !.url = url,
                                  !.enabled = enabled,
                                  !.secret = randomBytes,
                                  !.snap = whatsapp_sessions[u],
                                  !.out = o])
    /\ UNCHANGED << hits, boot,
                    whatsappClients, clientStates, userWebhooks,
                    whatsapp_sessions, webhook_logs, clients, posts, sent,
                    signals, exited >>

\* a configure call that keeps the stored secret
ConfiguredRow_KeepsSecret(row, url, enabled, secret) ==
    [row EXCEPT !.exists = TRUE, !.webhook_url = url,
                !.webhook_enabled = ToColumn(enabled)]

\* the columns update() and insert() write: webhook_url || null,
\* webhook_enabled || false, webhook_secret
ConfiguredRow(row, url, enabled, secret) ==
    [row EXCEPT !.exists = TRUE, !.webhook_url = url,
                !.webhook_enabled = ToColumn(enabled),
                !.webhook_secret = secret]

\* after the select: update the existing row or insert a new one.  A
\* rejected select lands in the catch block.  An insert for a user_id
\* that has a row by now fails with an error result.  o is the outcome of
\* the write.
CfgWrite(i, o) ==
    /\ Running
    /\ procs[i].kind = "configure" /\ procs[i].pc = "select"
    /\ LET p == procs[i]
           u == p.user
           existingSession == p.snap.exists
           result == IF ~existingSession /\ whatsapp_sessions[u].exists /\ o = "ok"
                     THEN "error" ELSE o
       IN
       IF p.out = "throw"
       THEN /\ procs' = [procs EXCEPT ![i] =
                            Respond([p EXCEPT !.snap = NoRow, !.out = ""],
                                    500, [NoBody EXCEPT !.error = "failed"])]
            /\ UNCHANGED whatsapp_sessions
       ELSE /\ whatsapp_sessions' =
                  IF result = "ok"
                  THEN [whatsapp_sessions EXCEPT ![u] =
                          ConfiguredRow(IF existingSession THEN @ ELSE NoRow,
                                        p.url, p.enabled, p.secret)]
                  ELSE whatsapp_sessions
            /\ procs' = [procs EXCEPT ![i].pc = "write", ![i].out = result,
                                      ![i].snap = NoRow]
    /\ UNCHANGED << hits, boot,
                    whatsappClients, clientStates, userWebhooks,
                    webhook_logs, clients, posts, sent, nextSecret, signals,
                    exited >>

\* a response that never carries the secret
ResponseSecret_Never(url, enabled, secret) == 0

\* response.webhook_secret, set only if (webhook_enabled && webhook_url)
ResponseSecret(url, enabled, secret) ==
    IF Truthy(enabled) /\ url # "" THEN secret ELSE 0

\* after the write: an error result or a rejection ends in the catch block;
\* otherwise update the webhook cache and answer
CfgDone(i) ==
    /\ Running
    /\ procs[i].kind = "configure" /\ procs[i].pc = "write"
    /\ LET p == [procs[i] EXCEPT !.out = ""]
           u == p.user
       IN
       IF procs[i].out # "ok"
       THEN /\ procs' = [procs EXCEPT ![i] =
                            Respond(p, 500, [NoBody EXCEPT !.error = "failed"])]
            /\ UNCHANGED userWebhooks
       ELSE /\ userWebhooks' =
                  [userWebhooks EXCEPT ![u] =
                      IF Truthy(p.enabled) /\ p.url # "" THEN p.url ELSE ""]
            /\ procs' = [procs EXCEPT ![i] =
                            Respond(p, 200,
                                    [NoBody EXCEPT !.secret =
                                        ResponseSecret(p.url, p.enabled, p.secret)])]
    /\ UNCHANGED << hits, boot,
                    whatsappClients, clientStates, whatsapp_sessions,
                    webhook_logs, clients, posts, sent, nextSecret, signals,
                    exited >>

(***************************************************************************)
(* GET /webhook/config                                                     *)
(***************************************************************************)

\* up to the await of the select of webhook_url, webhook_enabled,
\* webhook_secret; o is the outcome of the select
GetConfig(u, o) ==
    /\ Running
    /\ procs' = Append(procs, [NewProc("get_config", u) EXCEPT
                                  !.pc = "select",
                                  !.snap = whatsapp_sessions[u], !.out = o])
    /\ UNCHANGED << hits, boot,
                    whatsappClients, clientStates, userWebhooks,
                    whatsapp_sessions, webhook_logs, clients, posts, sent,
                    nextSecret, signals, exited >>

\* after the select: an error result is thrown into the catch block, like
\* a rejection; otherwise the answer carries session?.webhook_secret || null
GetConfigDone(i) ==
    /\ Running
    /\ procs[i].kind = "get_config" /\ procs[i].pc = "select"
    /\ LET p == [procs[i] EXCEPT !.out = "", !.snap = NoRow]
           session == procs[i].snap
       IN
       procs' = [procs EXCEPT ![i] =
                    IF procs[i].out # "ok"
                    THEN Respond(p, 500, [NoBody EXCEPT !.error = "failed"])
                    ELSE Respond(p, 200, [NoBody EXCEPT !.secret =
                                             session.webhook_secret])]
    /\ UNCHANGED << hits, boot,
                    whatsappClients, clientStates, userWebhooks,
                    whatsapp_sessions, webhook_logs, clients, posts, sent,
                    nextSecret, signals, exited >>

(***************************************************************************)
(* sendToWebhook, reached from POST /webhook/test and the message event    *)
(***************************************************************************)

\* whether the stored configuration of u has the webhook enabled with a url
StoredEnabled(u) ==
    /\ whatsapp_sessions[u].exists
    /\ whatsapp_sessions[u].webhook_enabled
    /\ whatsapp_sessions[u].webhook_url # ""

\* fetch(webhookUrl, {method: 'POST', body: JSON.stringify(webhookData)})
\* by activation i; `stored` notes the stored configuration at that moment
Post(i, u, data) ==
    [proc |-> i, user |-> u, url |-> userWebhooks[u],
     body |-> JSONstringify(data), stored |-> StoredEnabled(u)]

\* a row of webhook_logs written by activation i
LogEntry(i, u, direction, status, data) ==
    [proc |-> i, user_id |-> u, direction |-> direction, status |-> status,
     payload |-> data]

\* supabase.from('webhook_logs').insert(entry) with outcome o
Insert(entry, o) ==
    IF o = "ok" THEN Append(webhook_logs, entry) ELSE webhook_logs

\* POST /webhook/test up to the await of fetch; without a cached url
\* sendToWebhook returns and the handler answers
WebhookTest(u) ==
    /\ Running
    /\ LET i == Len(procs) + 1
           p == [NewProc("test", u) EXCEPT !.payload = "test"]
       IN
       IF userWebhooks[u] = ""
       THEN /\ procs' = Append(procs, Respond(p, 200, NoBody))
            /\ UNCHANGED posts
       ELSE /\ posts' = Append(posts, Post(i, u, "test"))
            /\ procs' = Append(procs, [p EXCEPT !.pc = "fetch"])
    /\ UNCHANGED << hits, boot,
                    whatsappClients, clientStates, userWebhooks,
                    whatsapp_sessions, webhook_logs, clients, sent,
                    nextSecret, signals, exited >>

\* client.on('message'), up to the await inside loadChatsForUser
OnMessage(h) ==
    /\ Running
    /\ Emits(h)
    /\ procs' = Append(procs, [NewProc("on_message", clients[h].owner) EXCEPT
                                  !.pc = "chats", !.client = h,
                                  !.payload = "message_received"])
    /\ UNCHANGED << hits, boot,
                    whatsappClients, clientStates, userWebhooks,
                    whatsapp_sessions, webhook_logs, clients, posts, sent,
                    nextSecret, signals, exited >>

\* client.on('message') after loadChatsForUser returned: with a cached
\* url, sendToWebhook up to the await of fetch
MsgChatsLoaded(i, report, c) ==
    /\ Running
    /\ procs[i].kind = "on_message" /\ procs[i].pc = "chats"
    /\ LET u == procs[i].user IN
       /\ clientStates' = LoadedChats(u, report, c)
       /\ IF userWebhooks[u] = ""
          THEN /\ procs' = [procs EXCEPT ![i] = Finished(@)]
               /\ UNCHANGED posts
          ELSE /\ posts' = Append(posts, Post(i, u, procs[i].payload))
               /\ procs' = [procs EXCEPT ![i].pc = "fetch"]
    /\ UNCHANGED << hits, boot,
                    whatsappClients, userWebhooks, whatsapp_sessions,
                    webhook_logs, clients, sent, nextSecret, signals, exited >>

\* sendToWebhook after fetch settled with r: a response is logged with its
\* status inside the try block, a rejection is logged as 'failed' in the
\* catch block.  o is the outcome of the insert.
FetchDone(i, r, o) ==
    /\ Running
    /\ procs[i].kind \in {"test", "on_message"} /\ procs[i].pc = "fetch"
    /\ LET p == procs[i] IN
       /\ webhook_logs' =
             Insert(LogEntry(i, p.user, "incoming",
                             IF r = "error" THEN "failed" ELSE r, p.payload), o)
       /\ procs' = [procs EXCEPT ![i].pc = IF r = "error" THEN "log2" ELSE "log1",
                                 ![i].fetch = r, ![i].out = o]
    /\ UNCHANGED << hits, boot,
                    whatsappClients, clientStates, userWebhooks,
                    whatsapp_sessions, clients, posts, sent, nextSecret,
                    signals, exited >>

\* the caller of sendToWebhook after it returned (rejected = FALSE) or
\* rejected: the message listener ends, POST /webhook/test answers
Delivered(p, rejected) ==
    IF p.kind = "test"
    THEN IF rejected
         THEN Respond(p, 500, [NoBody EXCEPT !.error = "failed"])
         ELSE Respond(p, 200, NoBody)
    ELSE IF rejected THEN Reject(p) ELSE Finished(p)

\* after the insert inside the try block: a rejected insert lands in the
\* catch block, which inserts a 'failed' entry (outcome o)
LogDone(i, o) ==
    /\ Running
    /\ procs[i].kind \in {"test", "on_message"} /\ procs[i].pc = "log1"
    /\ LET p == procs[i] IN
       IF p.out = "throw"
       THEN /\ webhook_logs' =
                  Insert(LogEntry(i, p.user, "incoming", "failed", p.payload), o)
            /\ procs' = [procs EXCEPT ![i].pc = "log2", ![i].out = o]
       ELSE /\ o = "ok"
            /\ procs' = [procs EXCEPT ![i] = Delivered([p EXCEPT !.out = ""], FALSE)]
            /\ UNCHANGED webhook_logs
    /\ UNCHANGED << hits, boot,
                    whatsappClients, clientStates, userWebhooks,
                    whatsapp_sessions, clients, posts, sent, nextSecret,
                    signals, exited >>

\* after the insert of the catch block, whose rejection leaves sendToWebhook
Log2Done(i) ==
    /\ Running
    /\ procs[i].kind \in {"test", "on_message"} /\ procs[i].pc = "log2"
    /\ procs' = [procs EXCEPT ![i] =
                    Delivered([@ EXCEPT !.out = ""], procs[i].out = "throw")]
    /\ UNCHANGED << hits, boot,
                    whatsappClients, clientStates, userWebhooks,
                    whatsapp_sessions, webhook_logs, clients, posts, sent,
                    nextSecret, signals, exited >>

(***************************************************************************)
(* GET /messages/:chatId, POST /send-message, POST /send-media             *)
(***************************************************************************)

\* a test that takes every registry lookup for a handle
NoClient_Never(client) == FALSE

\* !client, for client = whatsappClients.get(userId)
NoClient(client) == client = 0

\* a chatId that passes the validator of POST /send-message
DirectChatId == << "123", "@", "c.us" >>

\* the three handlers up to their first await, behind the limiter of the
\* route when it has one: without a registry entry they answer 503,
\* otherwise they make their first call on the client
DirectCall(kind, call, u) ==
    /\ Running
    /\ Count(kind)
    /\ LET client == whatsappClients[u]
           p == [NewProc(kind, u) EXCEPT !.to = DirectChatId,
                                         !.message = "hi"]
       IN
       IF OverBudget(kind)
       THEN /\ procs' = Append(procs, TooMany(p))
            /\ UNCHANGED sent
       ELSE IF NoClient(client)
       THEN /\ procs' = Append(procs,
                           Respond(p, 503,
                                   [NoBody EXCEPT !.error = "WhatsApp not connected"]))
            /\ UNCHANGED sent
       ELSE /\ sent' = Append(sent, [proc |-> Len(procs) + 1,
                                     client |-> client, call |-> call,
                                     chatId |-> p.to, message |-> p.message])
            /\ procs' = Append(procs, [p EXCEPT !.pc = "calling",
                                                !.client = client])
    /\ UNCHANGED << boot,
                    whatsappClients, clientStates, userWebhooks,
                    whatsapp_sessions, webhook_logs, clients, posts,
                    nextSecret, signals, exited >>

\* the three handlers after their calls on the client settled with s: the
\* answer, or the catch block
DirectDone(kind, i, s) ==
    /\ Running
    /\ procs[i].kind = kind /\ procs[i].pc = "calling"
    /\ procs' = [procs EXCEPT ![i] =
                    IF s = "throw"
                    THEN Respond(@, 500, [NoBody EXCEPT !.error = "failed"])
                    ELSE Respond(@, 200, NoBody)]
    /\ UNCHANGED << hits, boot,
                    whatsappClients, clientStates, userWebhooks,
                    whatsapp_sessions, webhook_logs, clients, posts, sent,
                    nextSecret, signals, exited >>

\* GET /messages/:chatId: client.getChatById, then chat.fetchMessages and
\* the media downloads, which touch no state of the server
GetMessages(u) == DirectCall("messages", "getChatById", u)

GetMessagesDone(i, s) == DirectDone("messages", i, s)

\* POST /send-message: client.sendMessage(chatId, message)
SendMessage(u) == DirectCall("send_message", "sendMessage", u)

SendMessageDone(i, s) == DirectDone("send_message", i, s)

\* POST /send-media: client.sendMessage(chatId, media, {caption})
SendMedia(u) == DirectCall("send_media", "sendMessage", u)

SendMediaDone(i, s) == DirectDone("send_media", i, s)

(***************************************************************************)
(* The validators of POST /send-message                                    *)
(***************************************************************************)

\* isLength({max: 4096})
MaxMessageLength == 4096

\* message texts around the limit, with and without white space around
\* the core
Texts ==
    { [lead |-> l, core |-> c, trail |-> r] :
         l \in {0, 1}, r \in {0, 1},
         c \in {0, 1, MaxMessageLength - 1, MaxMessageLength,
                MaxMessageLength + 1} }

\* String.length of a text
Length(t) == t.lead + t.core + t.trail

\* .trim() of a text
TrimText(t) == [lead |-> 0, core |-> t.core, trail |-> 0]

\* non-empty strings matching [\d\-]+
DigitRuns == {"123", "456", "-"}

\* chat ids as sequences of substrings: runs of digits and hyphens, "@",
\* the domains, letters and white space
ChatIds ==
    { << "123", "@", "c.us" >>, << "123", "-", "456", "@", "c.us" >>,
      << "456", "@", "g.us" >>, << "abc", "@", "c.us" >>, << "123" >>,
      << >>, << " " >>, << " ", "123", "@", "c.us" >>,
      << "123", "@", "c.us", " " >>, << "123", " ", "@", "c.us" >>,
      << "@", "c.us" >>, << "123", "@", "s.us" >> }

RECURSIVE TrimStart(_)
\* a string without its leading white space
TrimStart(c) == IF c # << >> /\ Head(c) = " " THEN TrimStart(Tail(c)) ELSE c

RECURSIVE TrimEnd(_)
\* a string without its trailing white space
TrimEnd(c) ==
    IF c # << >> /\ c[Len(c)] = " "
    THEN TrimEnd(SubSeq(c, 1, Len(c) - 1))
    ELSE c

\* .trim() of a chat id
TrimId(c) == TrimEnd(TrimStart(c))

\* /^[\d\-]+@[cg]\.us$/
Matches(c) ==
    /\ Len(c) >= 3
    /\ \A k \in 1 .. Len(c) - 2 : c[k] \in DigitRuns
    /\ c[Len(c) - 1] = "@"
    /\ c[Len(c)] \in {"c.us", "g.us"}

\* body('chatId').trim().notEmpty().matches(...)
ValidChatId(c) == TrimId(c) # << >> /\ Matches(TrimId(c))

\* a message chain without isLength
ValidMessage_AnyLength(t) == Length(TrimText(t)) > 0

\* body('message').trim().notEmpty().isLength({max: 4096})
ValidMessage(t) ==
    /\ Length(TrimText(t)) > 0
    /\ Length(TrimText(t)) <= MaxMessageLength

\* POST /send-message with a body {chatId, message}: messageLimiter, the
\* two validation chains, which replace the fields by their trimmed
\* values, validate, and the handler up to `await client.sendMessage`
SendText(u, chatId, text) ==
    /\ Running
    /\ Count("send_message")
    /\ LET client == whatsappClients[u]
           p == [NewProc("send_message", u) EXCEPT !.to = chatId,
                                                   !.text = text]
           Answer(r) == [r EXCEPT !.to = chatId, !.text = text]
           Error(st, e) == Answer(Respond(p, st, [NoBody EXCEPT !.error = e]))
       IN
       IF OverBudget("send_message")
       THEN /\ procs' = Append(procs, Answer(TooMany(p)))
            /\ UNCHANGED sent
       ELSE IF ~ValidChatId(chatId) \/ ~ValidMessage(text)
       THEN /\ procs' = Append(procs, Error(400, "Validation failed"))
            /\ UNCHANGED sent
       ELSE IF TrimId(chatId) = << >> \/ Length(TrimText(text)) = 0
       THEN /\ procs' = Append(procs, Error(400, "chatId and message are required"))
            /\ UNCHANGED sent
       ELSE IF NoClient(client)
       THEN /\ procs' = Append(procs, Error(503, "WhatsApp not connected"))
            /\ UNCHANGED sent
       ELSE /\ sent' = Append(sent, [proc |-> Len(procs) + 1,
                                     client |-> client,
                                     call |-> "sendMessage",
                                     chatId |-> TrimId(chatId),
                                     message |-> TrimText(text)])
            /\ procs' = Append(procs, [p EXCEPT !.pc = "calling",
                                                !.client = client])
    /\ UNCHANGED << boot,
                    whatsappClients, clientStates, userWebhooks,
                    whatsapp_sessions, webhook_logs, clients, posts,
                    nextSecret, signals, exited >>

(***************************************************************************)
(* POST /webhook/send/:userId                                              *)
(***************************************************************************)

\* webhookLimiter, then up to the await of the select of webhook_secret,
\* webhook_enabled; o is the outcome of the select
PublicSend(u, to, secret, o) ==
    /\ Running
    /\ Count("send")
    /\ procs' = Append(procs,
                       IF OverBudget("send")
                       THEN TooMany(NewProc("send", u))
                       ELSE [NewProc("send", u) EXCEPT
                                !.pc = "select", !.to = to,
                                !.message = "hi", !.secret = secret,
                                !.snap = whatsapp_sessions[u], !.out = o])
    /\ UNCHANGED << boot,
                    whatsappClients, clientStates, userWebhooks,
                    whatsapp_sessions, webhook_logs, clients, posts, sent,
                    nextSecret, signals, exited >>

\* a check that lets a disabled webhook through
NotEnabled_Never(session) == FALSE

\* !session || !session.webhook_enabled
NotEnabled(session) == ~session.exists \/ ~session.webhook_enabled

\* secret !== session.webhook_secret
SecretMismatch(session, secret) == secret # session.webhook_secret

\* a chat id that always gets the suffix
ChatId_AlwaysSuffix(to) == to \o << "@", "c.us" >>

\* to.includes('@') ? to : `${to}@c.us`
ChatId(to) ==
    IF \E k \in DOMAIN to : to[k] = "@" THEN to ELSE to \o << "@", "c.us" >>

\* after the select: the checks, then client.sendMessage(chatId, message)
PsCheck(i) ==
    /\ Running
    /\ procs[i].kind = "send" /\ procs[i].pc = "select"
    /\ LET p == [procs[i] EXCEPT !.out = ""]
           session == p.snap
           client == whatsappClients[p.user]
           Error(s, e) == Respond(p, s, [NoBody EXCEPT !.error = e])
       IN
       IF procs[i].out = "throw" \/ NotEnabled(session)
          \/ SecretMismatch(session, p.secret) \/ NoClient(client)
       THEN /\ procs' = [procs EXCEPT ![i] =
                  IF procs[i].out = "throw" THEN Error(500, "failed")
                  ELSE IF NotEnabled(session) THEN Error(403, "Webhook not enabled for this user")
                  ELSE IF SecretMismatch(session, p.secret) THEN Error(401, "Invalid webhook secret")
                  ELSE Error(503, "WhatsApp not connected for this user")]
            /\ UNCHANGED sent
       ELSE /\ sent' = Append(sent, [proc |-> i, client |-> client,
                                     call |-> "sendMessage",
                                     chatId |-> ChatId(p.to),
                                     message |-> p.message])
            /\ procs' = [procs EXCEPT ![i] = [p EXCEPT !.pc = "sending",
                                                       !.client = client]]
    /\ UNCHANGED << hits, boot,
                    whatsappClients, clientStates, userWebhooks,
                    whatsapp_sessions, webhook_logs, clients, posts,
                    nextSecret, signals, exited >>

\* after sendMessage settled with s: log the call (outcome o of the insert)
PsSent(i, s, o) ==
    /\ Running
    /\ procs[i].kind = "send" /\ procs[i].pc = "sending"
    /\ LET p == procs[i] IN
       IF s = "throw"
       THEN /\ o = "ok"
            /\ procs' = [procs EXCEPT ![i] =
                            Respond(p, 500, [NoBody EXCEPT !.error = "failed"])]
            /\ UNCHANGED webhook_logs
       ELSE /\ webhook_logs' =
                  Insert(LogEntry(i, p.user, "outgoing", "success", p.message), o)
            /\ procs' = [procs EXCEPT ![i].pc = "log", ![i].out = o]
    /\ UNCHANGED << hits, boot,
                    whatsappClients, clientStates, userWebhooks,
                    whatsapp_sessions, clients, posts, sent, nextSecret,
                    signals, exited >>

\* after the insert: answer with the chat id; a rejected insert lands in
\* the catch block
PsLogged(i) ==
    /\ Running
    /\ procs[i].kind = "send" /\ procs[i].pc = "log"
    /\ LET p == [procs[i] EXCEPT !.out = ""] IN
       procs' = [procs EXCEPT ![i] =
                    IF procs[i].out = "throw"
                    THEN Respond(p, 500, [NoBody EXCEPT !.error = "failed"])
                    ELSE Respond(p, 200, [NoBody EXCEPT !.chatId = ChatId(p.to)])]
    /\ UNCHANGED << hits, boot,
                    whatsappClients, clientStates, userWebhooks,
                    whatsapp_sessions, webhook_logs, clients, posts, sent,
                    nextSecret, signals, exited >>

(***************************************************************************)
(* gracefulShutdown                                                        *)
(***************************************************************************)

\* a shutdown that finds no client to destroy
Registered_None == {}

\* handles in the registry
Registered == { whatsappClients[u] : u \in Users } \ {0}

\* SIGTERM / SIGINT: client.destroy() is called on every entry of
\* whatsappClients before the first await
gracefulShutdown ==
    /\ Running
    /\ signals' = signals + 1
    /\ clients' = [h \in DOMAIN clients |->
                      IF h \in Registered
                      THEN [clients[h] EXCEPT !.destroys = @ + 1]
                      ELSE clients[h]]
    /\ UNCHANGED << hits, boot,
                    whatsappClients, clientStates, userWebhooks,
                    whatsapp_sessions, webhook_logs, procs, posts, sent,
                    nextSecret, exited >>

\* after Promise.race: process.exit(0)
ShutdownExit ==
    /\ Running
    /\ signals > 0
    /\ exited' = TRUE
    /\ boot' = [boot EXCEPT !.code = 0]
    /\ UNCHANGED << hits,
                    whatsappClients, clientStates, userWebhooks,
                    whatsapp_sessions, webhook_logs, clients, procs, posts,
                    sent, nextSecret, signals >>

(***************************************************************************)
(* Loading the module: environment validation and app.listen               *)
(***************************************************************************)

\* a validation that looks at SUPABASE_URL only
Missing_UrlOnly(b) == ~b.SUPABASE_URL

\* !SUPABASE_URL || !SUPABASE_SERVICE_ROLE_KEY: a variable that is unset
\* or empty
Missing(b) == ~b.SUPABASE_URL \/ ~b.SUPABASE_SERVICE_ROLE_KEY

\* the top-level code of server.js: process.exit(1) when a credential is
\* missing, otherwise on to app.listen()
Startup ==
    /\ ~boot.listening /\ ~exited
    /\ IF Missing(boot)
       THEN /\ exited' = TRUE
            /\ boot' = [boot EXCEPT !.code = 1]
       ELSE /\ boot' = [boot EXCEPT !.listening = TRUE]
            /\ UNCHANGED exited
    /\ UNCHANGED << hits,
                    whatsappClients, clientStates, userWebhooks,
                    whatsapp_sessions, webhook_logs, clients, procs, posts,
                    sent, nextSecret, signals >>

(***************************************************************************)
(* Specifications                                                          *)
(***************************************************************************)

\* both credentials in the environment, app.listen() called, no exit
Listening ==
    [SUPABASE_URL |-> TRUE, SUPABASE_SERVICE_ROLE_KEY |-> TRUE,
     listening |-> TRUE, code |-> -1]

\* the Maps and the tables when the module is loaded
Empty ==
    /\ whatsappClients = [u \in Users |-> 0]
    /\ clientStates = [u \in Users |-> NoState]
    /\ userWebhooks = [u \in Users |-> ""]
    /\ whatsapp_sessions = [u \in Users |-> NoRow]
    /\ webhook_logs = <<>>
    /\ clients = <<>>
    /\ procs = <<>>
    /\ posts = <<>>
    /\ sent = <<>>
    /\ nextSecret = 0
    /\ signals = 0
    /\ exited = FALSE

\* the server after its start, at the beginning of a limiter window
Init ==
    /\ Empty
    /\ hits = NoHits
    /\ boot = Listening

\* the user whose requests the specifications explore: the three Maps and
\* both tables are keyed by userId
Owners == {"u1"}

\* the session lifecycle: status calls, logouts (whose store update may
\* reject) and termination signals
NextLife ==
    \/ Started < MaxLifeOps /\ \E u \in Owners : GetQr(u, "ok")
    \/ \E i \in DOMAIN procs : QrLoaded(i, "express4")
    \/ \E i \in DOMAIN procs : QrRespond(i)
    \/ Started < MaxLifeOps /\ \E u \in Owners : Logout(u)
    \/ \E i \in DOMAIN procs : \E o \in {"ok", "throw"} : LogoutRemove(i, o)
    \/ \E i \in DOMAIN procs : LogoutSchedule(i)
    \/ \E i \in DOMAIN procs : DestroyTimer(i)
    \/ Started < MaxLifeOps /\ gracefulShutdown
    \/ ShutdownExit

SpecLife == Init /\ [][NextLife]_vars

\* the same with the timer of gracefulShutdown: the five-second timeout of
\* its Promise.race fires whatever the destroy() calls do, so the
\* continuation that calls process.exit(0) is eventually run
SpecLifeFair == SpecLife /\ WF_vars(ShutdownExit)

\* the client events of sessions created by status calls, with a store
\* and a capability that answer
NextEvents ==
    \/ Started < MaxEventOps /\ \E u \in Owners : GetQr(u, "ok")
    \/ \E i \in DOMAIN procs : QrLoaded(i, "express4")
    \/ \E i \in DOMAIN procs : QrRespond(i)
    \/ Started < MaxEventOps /\ \E h \in DOMAIN clients, q \in QrCodes : OnQr(h, q)
    \/ \E i \in DOMAIN procs : QrEncoded(i)
    \/ Started < MaxEventOps /\ \E h \in DOMAIN clients : OnReady(h)
    \/ \E i \in DOMAIN procs, report \in ChatReports :
          ReadyChatsLoaded(i, report, "ok", "ok")
    \/ Started < MaxEventOps /\ \E h \in DOMAIN clients :
          OnDisconnected(h, "ok", "ok")

SpecEvents == Init /\ [][NextEvents]_vars

\* the webhook relay: configuration, deliveries from the test call and
\* from message events, and the status calls that create the client and
\* load the stored configuration
NextRelay ==
    \/ Started < MaxRelayOps /\ \E u \in Owners, e \in {"true", "false"} :
          Configure(u, "url1", e, "ok")
    \/ \E i \in DOMAIN procs : CfgWrite(i, "ok")
    \/ \E i \in DOMAIN procs : CfgDone(i)
    \/ Started < MaxRelayOps /\ \E u \in Owners : GetQr(u, "ok")
    \/ \E i \in DOMAIN procs : QrLoaded(i, "express4")
    \/ \E i \in DOMAIN procs : QrRespond(i)
    \/ Started < MaxRelayOps /\ \E u \in Owners : WebhookTest(u)
    \/ Started < MaxRelayOps /\ \E h \in DOMAIN clients : OnMessage(h)
    \/ \E i \in DOMAIN procs, report \in ChatReports : MsgChatsLoaded(i, report, "ok")
    \/ \E i \in DOMAIN procs, r \in FetchOutcomes, o \in {"ok", "throw"} :
          FetchDone(i, r, o)
    \/ \E i \in DOMAIN procs, o \in {"ok", "throw"} : LogDone(i, o)
    \/ \E i \in DOMAIN procs : Log2Done(i)

SpecRelay == Init /\ [][NextRelay]_vars

\* the configure calls with every input and every outcome of their write,
\* the reads of the configuration, and the status calls that load the
\* stored configuration
NextConfig ==
    \/ Started < MaxConfigOps /\ \E u \in Owners, url \in Urls, e \in EnabledInputs :
          Configure(u, url, e, "ok")
    \/ \E i \in DOMAIN procs, o \in StoreOutcomes : CfgWrite(i, o)
    \/ \E i \in DOMAIN procs : CfgDone(i)
    \/ Started < MaxConfigOps /\ \E u \in Owners, o \in StoreOutcomes :
          GetConfig(u, o)
    \/ \E i \in DOMAIN procs : GetConfigDone(i)
    \/ Started < MaxConfigOps /\ \E u \in Owners : GetQr(u, "ok")
    \/ \E i \in DOMAIN procs : QrLoaded(i, "express4")
    \/ \E i \in DOMAIN procs : QrRespond(i)

SpecConfig == Init /\ [][NextConfig]_vars

\* the public send endpoint, with the configure calls that set the secret
\* and the status calls that create the client
NextSend ==
    \/ Started < MaxSendOps /\ \E u \in Owners, e \in EnabledInputs :
          Configure(u, "url1", e, "ok")
    \/ \E i \in DOMAIN procs : CfgWrite(i, "ok")
    \/ \E i \in DOMAIN procs : CfgDone(i)
    \/ Started < MaxSendOps /\ \E u \in Owners : GetQr(u, "ok")
    \/ \E i \in DOMAIN procs : QrLoaded(i, "express4")
    \/ \E i \in DOMAIN procs : QrRespond(i)
    \/ Started < MaxSendOps /\ \E u \in Owners, to \in Recipients, k \in SecretInputs :
          PublicSend(u, to, k, "ok")
    \/ \E i \in DOMAIN procs : PsCheck(i)
    \/ \E i \in DOMAIN procs, s \in {"ok", "throw"}, o \in StoreOutcomes :
          PsSent(i, s, o)
    \/ \E i \in DOMAIN procs : PsLogged(i)

SpecSend == Init /\ [][NextSend]_vars

\* the requests that need a client: the three direct calls and the public
\* send endpoint, with the status calls and logouts that fill and empty the
\* registry and the configure calls that set the secret
NextCalls ==
    \/ Started < MaxCallOps /\ \E u \in Owners : Configure(u, "url1", "true", "ok")
    \/ \E i \in DOMAIN procs : CfgWrite(i, "ok")
    \/ \E i \in DOMAIN procs : CfgDone(i)
    \/ Started < MaxCallOps /\ \E u \in Owners : GetQr(u, "ok")
    \/ \E i \in DOMAIN procs : QrLoaded(i, "express4")
    \/ \E i \in DOMAIN procs : QrRespond(i)
    \/ Started < MaxCallOps /\ \E u \in Owners : Logout(u)
    \/ \E i \in DOMAIN procs : LogoutRemove(i, "ok")
    \/ \E i \in DOMAIN procs : LogoutSchedule(i)
    \/ \E i \in DOMAIN procs : DestroyTimer(i)
    \/ Started < MaxCallOps /\ \E u \in Owners : GetMessages(u)
    \/ \E i \in DOMAIN procs, s \in {"ok", "throw"} : GetMessagesDone(i, s)
    \/ Started < MaxCallOps /\ \E u \in Owners : SendMessage(u)
    \/ \E i \in DOMAIN procs, s \in {"ok", "throw"} : SendMessageDone(i, s)
    \/ Started < MaxCallOps /\ \E u \in Owners : SendMedia(u)
    \/ \E i \in DOMAIN procs, s \in {"ok", "throw"} : SendMediaDone(i, s)
    \/ Started < MaxCallOps /\ \E u \in Owners, k \in SecretInputs :
          PublicSend(u, << "123" >>, k, "ok")
    \/ \E i \in DOMAIN procs : PsCheck(i)
    \/ \E i \in DOMAIN procs, s \in {"ok", "throw"} : PsSent(i, s, "ok")
    \/ \E i \in DOMAIN procs : PsLogged(i)

SpecCalls == Init /\ [][NextCalls]_vars

\* the states of a session: the status calls that create the client, its
\* ready, disconnected and auth_failure events, and the logouts that tear
\* it down, with a store and a capability that answer
NextSession ==
    \/ Started < MaxSessionOps /\ \E u \in Owners : GetQr(u, "ok")
    \/ \E i \in DOMAIN procs : QrLoaded(i, "express4")
    \/ \E i \in DOMAIN procs : QrRespond(i)
    \/ Started < MaxSessionOps /\ \E h \in DOMAIN clients : OnReady(h)
    \/ \E i \in DOMAIN procs, report \in ChatReports :
          ReadyChatsLoaded(i, report, "ok", "ok")
    \/ Started < MaxSessionOps /\ \E h \in DOMAIN clients :
          OnDisconnected(h, "ok", "ok")
    \/ Started < MaxSessionOps /\ \E h \in DOMAIN clients : OnAuthFailure(h)
    \/ Started < MaxSessionOps /\ \E u \in Owners : Logout(u)
    \/ \E i \in DOMAIN procs : LogoutRemove(i, "ok")
    \/ \E i \in DOMAIN procs : LogoutSchedule(i)
    \/ \E i \in DOMAIN procs : DestroyTimer(i)

SpecSession == Init /\ [][NextSession]_vars

\* the requests whose calls on the store and on the client may throw: the
\* status calls, the logouts, the reads of the configuration and the three
\* direct calls
NextErrors ==
    \/ Started < MaxErrorOps /\ \E u \in Owners, o \in {"ok", "throw"} : GetQr(u, o)
    \/ \E i \in DOMAIN procs, f \in Frameworks : QrLoaded(i, f)
    \/ \E i \in DOMAIN procs : QrRespond(i)
    \/ Started < MaxErrorOps /\ \E u \in Owners : Logout(u)
    \/ \E i \in DOMAIN procs, o \in {"ok", "throw"} : LogoutRemove(i, o)
    \/ \E i \in DOMAIN procs : LogoutSchedule(i)
    \/ \E i \in DOMAIN procs : DestroyTimer(i)
    \/ Started < MaxErrorOps /\ \E u \in Owners, o \in StoreOutcomes :
          GetConfig(u, o)
    \/ \E i \in DOMAIN procs : GetConfigDone(i)
    \/ Started < MaxErrorOps /\ \E u \in Owners : GetMessages(u)
    \/ \E i \in DOMAIN procs, s \in {"ok", "throw"} : GetMessagesDone(i, s)
    \/ Started < MaxErrorOps /\ \E u \in Owners : SendMessage(u)
    \/ \E i \in DOMAIN procs, s \in {"ok", "throw"} : SendMessageDone(i, s)
    \/ Started < MaxErrorOps /\ \E u \in Owners : SendMedia(u)
    \/ \E i \in DOMAIN procs, s \in {"ok", "throw"} : SendMediaDone(i, s)

SpecErrors == Init /\ [][NextErrors]_vars

\* two users at once: their status calls, ready and disconnected events,
\* logouts and configure calls, with store writes that succeed or fail
NextIsolation ==
    \/ Started < MaxIsolationOps /\ \E u \in Users : GetQr(u, "ok")
    \/ \E i \in DOMAIN procs : QrLoaded(i, "express4")
    \/ \E i \in DOMAIN procs : QrRespond(i)
    \/ Started < MaxIsolationOps /\ \E h \in DOMAIN clients : OnReady(h)
    \/ \E i \in DOMAIN procs : ReadyChatsLoaded(i, <<>>, "ok", "ok")
    \/ Started < MaxIsolationOps /\ \E h \in DOMAIN clients :
          OnDisconnected(h, "ok", "ok")
    \/ Started < MaxIsolationOps /\ \E u \in Users : Logout(u)
    \/ \E i \in DOMAIN procs, o \in {"ok", "throw"} : LogoutRemove(i, o)
    \/ \E i \in DOMAIN procs : LogoutSchedule(i)
    \/ \E i \in DOMAIN procs : DestroyTimer(i)
    \/ Started < MaxIsolationOps /\ \E u \in Users :
          Configure(u, "url1", "true", "ok")
    \/ \E i \in DOMAIN procs, o \in {"ok", "throw"} : CfgWrite(i, o)
    \/ \E i \in DOMAIN procs : CfgDone(i)

SpecIsolation == Init /\ [][NextIsolation]_vars

\* the middleware of the bearer-authenticated endpoints with every kind
\* of token, and the handlers it passes requests on to: status calls, send
\* text and configure
NextAuth ==
    \/ Started < MaxAuthOps /\ \E u \in Owners, t \in Tokens : Authenticate(u, t)
    \/ \E i \in DOMAIN procs, o \in {"ok", "throw"} : AuthDone(i, o)
    \/ Started < MaxAuthOps /\ \E u \in Owners : GetQr(u, "ok")
    \/ \E i \in DOMAIN procs : QrLoaded(i, "express4")
    \/ \E i \in DOMAIN procs : QrRespond(i)
    \/ Started < MaxAuthOps /\ \E u \in Owners : SendMessage(u)
    \/ \E i \in DOMAIN procs, s \in {"ok", "throw"} : SendMessageDone(i, s)
    \/ Started < MaxAuthOps /\ \E u \in Owners : Configure(u, "url1", "true", "ok")
    \/ \E i \in DOMAIN procs : CfgWrite(i, "ok")
    \/ \E i \in DOMAIN procs : CfgDone(i)

SpecAuth == Init /\ [][NextAuth]_vars

\* a text and a chat id that pass validation
GoodText == [lead |-> 0, core |-> 1, trail |-> 0]

\* the bodies of the send text requests: every chat id with a valid
\* message, every message with a valid chat id, and two bodies with both
\* fields invalid
Bodies ==
    { << c, GoodText >> : c \in ChatIds }
       \cup { << DirectChatId, t >> : t \in Texts }
       \cup { << << "abc", "@", "c.us" >>, t >> :
                 t \in { [lead |-> 1, core |-> 0, trail |-> 0],
                         [lead |-> 0, core |-> MaxMessageLength + 1,
                          trail |-> 0] } }

\* send text requests with every body, for users with and without a
\* connected client
NextValidate ==
    \/ Started < MaxValidateOps /\ \E u \in Owners : GetQr(u, "ok")
    \/ \E i \in DOMAIN procs : QrLoaded(i, "express4")
    \/ \E i \in DOMAIN procs : QrRespond(i)
    \/ Started < MaxValidateOps /\ \E u \in Owners, b \in Bodies :
          SendText(u, b[1], b[2])
    \/ \E i \in DOMAIN procs, s \in {"ok", "throw"} : SendMessageDone(i, s)

SpecValidate == Init /\ [][NextValidate]_vars

\* the requests the caller has made to each send endpoint earlier in the
\* current window and that were answered before the behaviour starts:
\* none, or one less than a limiter allows
WindowStarts ==
    [CountedKinds -> {0, webhookLimiterMax - 1, messageLimiterMax - 1}]

InitLimits ==
    /\ Empty
    /\ hits \in WindowStarts
    /\ boot = Listening

\* the three send endpoints late in a limiter window, for users with and
\* without a connected client
NextLimits ==
    \/ Started < MaxLimitOps /\ \E u \in Owners : GetQr(u, "ok")
    \/ \E i \in DOMAIN procs : QrLoaded(i, "express4")
    \/ \E i \in DOMAIN procs : QrRespond(i)
    \/ Started < MaxLimitOps /\ \E u \in Owners : SendMessage(u)
    \/ \E i \in DOMAIN procs, s \in {"ok", "throw"} : SendMessageDone(i, s)
    \/ Started < MaxLimitOps /\ \E u \in Owners : SendMedia(u)
    \/ \E i \in DOMAIN procs, s \in {"ok", "throw"} : SendMediaDone(i, s)
    \/ Started < MaxLimitOps /\ \E u \in Owners, k \in SecretInputs :
          PublicSend(u, << "123" >>, k, "ok")
    \/ \E i \in DOMAIN procs : PsCheck(i)
    \/ \E kind \in CountedKinds : WindowReset(kind)

SpecLimits == InitLimits /\ [][NextLimits]_vars

\* process.env before server.js is loaded: each credential set or not
Environments ==
    { [SUPABASE_URL |-> a, SUPABASE_SERVICE_ROLE_KEY |-> b,
       listening |-> FALSE, code |-> -1] : a, b \in BOOLEAN }

InitBoot ==
    /\ Empty
    /\ hits = NoHits
    /\ boot \in Environments

\* the process from the moment node loads server.js: startup, then status
\* calls, client events and termination signals
NextBoot ==
    \/ Startup
    \/ Started < MaxBootOps /\ \E u \in Owners : GetQr(u, "ok")
    \/ \E i \in DOMAIN procs : QrLoaded(i, "express4")
    \/ \E i \in DOMAIN procs : QrRespond(i)
    \/ Started < MaxBootOps /\ \E h \in DOMAIN clients, q \in QrCodes : OnQr(h, q)
    \/ \E i \in DOMAIN procs : QrEncoded(i)
    \/ Started < MaxBootOps /\ \E h \in DOMAIN clients : OnReady(h)
    \/ \E i \in DOMAIN procs, report \in ChatReports :
          ReadyChatsLoaded(i, report, "ok", "ok")
    \/ Started < MaxBootOps /\ gracefulShutdown
    \/ ShutdownExit

SpecBoot == InitBoot /\ [][NextBoot]_vars

\* the top-level code of the module runs to its end once node has started
SpecBootFair == SpecBoot /\ WF_vars(Startup)

\* every endpoint that takes requests for a user: the status call, the
\* logout, and the calls that read or use a session without creating one
NextCreate ==
    \/ Started < MaxCreateOps /\ \E u \in Owners : GetQr(u, "ok")
    \/ \E i \in DOMAIN procs : QrLoaded(i, "express4")
    \/ \E i \in DOMAIN procs : QrRespond(i)
    \/ Started < MaxCreateOps /\ \E u \in Owners : Logout(u)
    \/ \E i \in DOMAIN procs : LogoutRemove(i, "ok")
    \/ \E i \in DOMAIN procs : LogoutSchedule(i)
    \/ \E i \in DOMAIN procs : DestroyTimer(i)
    \/ Started < MaxCreateOps /\ \E u \in Owners : GetChats(u)
    \/ Started < MaxCreateOps /\ \E u \in Owners : GetMessages(u)
    \/ \E i \in DOMAIN procs : GetMessagesDone(i, "ok")
    \/ Started < MaxCreateOps /\ \E u \in Owners : SendMessage(u)
    \/ \E i \in DOMAIN procs : SendMessageDone(i, "ok")
    \/ Started < MaxCreateOps /\ \E u \in Owners : SendMedia(u)
    \/ \E i \in DOMAIN procs : SendMediaDone(i, "ok")
    \/ Started < MaxCreateOps /\ \E u \in Owners : Configure(u, "url1", "true", "ok")
    \/ \E i \in DOMAIN procs : CfgWrite(i, "ok")
    \/ \E i \in DOMAIN procs : CfgDone(i)
    \/ Started < MaxCreateOps /\ \E u \in Owners : WebhookTest(u)
    \/ \E i \in DOMAIN procs, r \in {"200", "error"} : FetchDone(i, r, "ok")
    \/ \E i \in DOMAIN procs : LogDone(i, "ok")
    \/ \E i \in DOMAIN procs : Log2Done(i)
    \/ Started < MaxCreateOps /\ \E u \in Owners :
          PublicSend(u, << "123" >>, 1, "ok")
    \/ \E i \in DOMAIN procs : PsCheck(i)
    \/ \E i \in DOMAIN procs : PsSent(i, "ok", "ok")
    \/ \E i \in DOMAIN procs : PsLogged(i)

SpecCreate == Init /\ [][NextCreate]_vars

\* the webhook cache over the life of a session: status calls, enabling
\* configure calls, logouts and test deliveries, with a store and a
\* receiver that answer
NextCache ==
    \/ Started < MaxCacheOps /\ \E u \in Owners : GetQr(u, "ok")
    \/ \E i \in DOMAIN procs : QrLoaded(i, "express4")
    \/ \E i \in DOMAIN procs : QrRespond(i)
    \/ Started < MaxCacheOps /\ \E u \in Owners : Configure(u, "url1", "true", "ok")
    \/ \E i \in DOMAIN procs : CfgWrite(i, "ok")
    \/ \E i \in DOMAIN procs : CfgDone(i)
    \/ Started < MaxCacheOps /\ \E u \in Owners : Logout(u)
    \/ \E i \in DOMAIN procs : LogoutRemove(i, "ok")
    \/ \E i \in DOMAIN procs : LogoutSchedule(i)
    \/ \E i \in DOMAIN procs : DestroyTimer(i)
    \/ Started < MaxCacheOps /\ \E u \in Owners : WebhookTest(u)
    \/ \E i \in DOMAIN procs : FetchDone(i, "200", "ok")
    \/ \E i \in DOMAIN procs : LogDone(i, "ok")

SpecCache == Init /\ [][NextCache]_vars

(***************************************************************************)
(* Properties of the session lifecycle (SpecLife)                          *)
(***************************************************************************)
Handles == DOMAIN clients

\* handles a logout request has removed from the registry (it is past its
\* step 2)
TornDown ==
    { procs[i].client : i \in { j \in DOMAIN procs :
          /\ procs[j].kind = "logout"
          /\ procs[j].client # 0
          /\ procs[j].pc \in {"update", "timer", "done"} } }

\* handles some unfinished activation still refers to
Held == { procs[i].client : i \in { j \in DOMAIN procs : procs[j].pc # "done" } }

\* constructed and initialized, not destroyed and not torn down
Live(h) ==
    /\ clients[h].initialized
    /\ clients[h].destroys = 0
    /\ h \notin TornDown

\* the step starts a GET /qr activation
StartsQr == /\ Len(procs') = Len(procs) + 1
            /\ procs'[Len(procs')].kind = "qr"

\* C1: for every user at most one constructed and initialized client is
\* live, whatever the interleaving of the GET /qr calls
C1_AtMostOneLiveClient ==
    \A u \in Users :
        Cardinality({h \in Handles : clients[h].owner = u /\ Live(h)}) <= 1

\* C3: a handle that teardown has removed is never again the registry's
\* entry, also while its destroy() is pending, and a GET /qr that starts
\* after the removal never gets it
C3_TornDownNeverReturned ==
    [][ /\ TornDown' \cap Registered' = {}
        /\ StartsQr => procs'[Len(procs')].client \notin TornDown ]_vars

\* C3 witness: a torn-down handle awaits its destroy() while the registry
\* holds another, newer handle for the same user
C3_Witness ==
    \E i \in DOMAIN procs :
        /\ procs[i].kind = "logout" /\ procs[i].pc = "timer"
        /\ whatsappClients[procs[i].user] \notin {0, procs[i].client}
        /\ \E j \in DOMAIN procs :
              /\ j > i /\ procs[j].kind = "qr" /\ procs[j].pc = "done"
              /\ procs[j].user = procs[i].user
              /\ procs[j].client = whatsappClients[procs[i].user]

\* C4: destroy() is called at most once on every handle
C4_DestroyedAtMostOnce ==
    \A h \in Handles : clients[h].destroys <= 1

\* C5: no handle is left undestroyed: a handle that is out of the registry
\* and that no unfinished activation holds has had destroy() called
C5_NoHandleLeftUndestroyed ==
    \A h \in Handles :
        (h \notin Registered /\ h \notin Held) => clients[h].destroys > 0

OfUser(u) == { i \in DOMAIN procs : procs[i].user = u }

\* C6: when a qr callback of a user's client is followed by a ready
\* callback of that client, with nothing else started for the user after
\* it, then once both handlers have completed the session is ready with an
\* empty pairing code
C6_ReadyAfterQrWins ==
    \A i, j \in DOMAIN procs :
        ( /\ i < j
          /\ procs[i].kind = "on_qr" /\ procs[j].kind = "on_ready"
          /\ procs[i].client = procs[j].client
          /\ procs[i].pc = "done" /\ procs[j].pc = "done"
          /\ ~procs[i].rejected /\ ~procs[j].rejected
          /\ \A k \in OfUser(procs[j].user) : k <= j )
        => /\ clientStates[procs[j].user].ready
           /\ clientStates[procs[j].user].qr = ""

(***************************************************************************)
(* Properties of the public send endpoint (SpecSend)                       *)
(***************************************************************************)

\* the step starts an activation of the given kind
Starts(kind) == /\ Len(procs') = Len(procs) + 1
                /\ procs'[Len(procs')].kind = kind

\* C2: the public send endpoint reads the stored configuration of the
\* path's userId, and it calls sendMessage for a request only if the
\* configuration it read has enabled = true and the request's secret equals
\* the stored secret
C2_DispatchOnlyWhenAuthorized ==
    [][ /\ Starts("send") =>
              procs'[Len(procs')].snap
                 = whatsapp_sessions[procs'[Len(procs')].user]
        /\ Len(sent') > Len(sent) =>
              LET p == procs[sent'[Len(sent')].proc] IN
              /\ Len(sent') = Len(sent) + 1
              /\ p.kind = "send"
              /\ p.snap.exists
              /\ p.snap.webhook_enabled
              /\ p.secret = p.snap.webhook_secret ]_vars

\* C2 witness: a public send request was dispatched to the client
C2_Witness ==
    \E k \in DOMAIN sent :
        /\ procs[sent[k].proc].kind = "send"
        /\ procs[sent[k].proc].status = 200

(***************************************************************************)
(* Properties of the webhook relay (SpecRelay, SpecConfig)                 *)
(***************************************************************************)

\* the deliveries that have run to their end: activations that called fetch
Deliveries ==
    { i \in DOMAIN procs : /\ procs[i].kind \in {"test", "on_message"}
                           /\ procs[i].pc = "done"
                           /\ procs[i].fetch # "" }

\* C8: a delivery makes exactly one POST, with the JSON serialization of
\* its payload as body, and appends exactly one log entry, whose status is
\* the HTTP status of the response, or 'failed' when the call failed
C8_OnePostOneLogEntry ==
    \A i \in Deliveries :
        LET P == { k \in DOMAIN posts : posts[k].proc = i }
            L == { k \in DOMAIN webhook_logs : webhook_logs[k].proc = i }
        IN
        /\ Cardinality(P) = 1
        /\ \A k \in P : posts[k].body = JSONstringify(procs[i].payload)
        /\ Cardinality(L) = 1
        /\ \A k \in L :
              webhook_logs[k].status =
                 IF procs[i].fetch = "error" THEN "failed" ELSE procs[i].fetch

\* C9: every outbound delivery is made while the stored configuration of
\* its user has enabled = true and a url
C9_PostOnlyWhileEnabled ==
    \A k \in DOMAIN posts : posts[k].stored

\* a configure call generates a secret that no earlier call has produced
\* and that is not the stored one
C10_Fresh ==
    Starts("configure") =>
        LET p == procs'[Len(procs')] IN
        /\ p.secret \notin 0..nextSecret
        /\ p.secret # whatsapp_sessions[p.user].webhook_secret
        /\ \A j \in DOMAIN procs : procs[j].secret # p.secret

\* a configure call whose write succeeds has stored its secret
C10_Stores ==
    \A i \in DOMAIN procs :
        (procs[i].kind = "configure" /\ procs[i].pc = "select"
           /\ procs'[i].pc = "write" /\ procs'[i].out = "ok") =>
        /\ whatsapp_sessions'[procs[i].user].webhook_secret = procs[i].secret
        /\ whatsapp_sessions'[procs[i].user].exists

\* the configure call answers 200 in this step
Succeeds(i) ==
    /\ procs[i].kind = "configure" /\ procs[i].pc = "write"
    /\ procs'[i].pc = "done" /\ procs'[i].status = 200

C11_ReadPathHidesSecret ==
    \A i \in DOMAIN procs :
        (procs[i].pc = "done" /\ procs[i].body.secret # 0)
           => procs[i].kind = "configure"

(***************************************************************************)
(* Properties of the checks of the public send endpoint (SpecSend)        *)
(***************************************************************************)

\* public send request i leaves its checks in this step, its select having
\* returned a row
Checked(i) ==
    /\ procs[i].kind = "send" /\ procs[i].pc = "select"
    /\ procs[i].out = "ok" /\ procs[i].snap.exists
    /\ procs'[i].pc # "select"

\* C12: a public send request whose secret differs from the stored secret
\* is answered 401 whatever the enabled flag, and one whose secret matches
\* while the webhook is disabled is answered 403
C12_WrongSecret401 ==
    [][ \A i \in DOMAIN procs :
          Checked(i) =>
             /\ procs[i].secret # procs[i].snap.webhook_secret
                   => procs'[i].status = 401
             /\ (procs[i].secret = procs[i].snap.webhook_secret
                   /\ ~procs[i].snap.webhook_enabled)
                   => procs'[i].status = 403 ]_vars

\* C13: all public send requests rejected as unauthorized get the same
\* status code and the same error body
C13_RejectionsAlike ==
    \A i, j \in DOMAIN procs :
        ( /\ procs[i].kind = "send" /\ procs[j].kind = "send"
          /\ procs[i].pc = "done" /\ procs[j].pc = "done"
          /\ procs[i].status \in {401, 403}
          /\ procs[j].status \in {401, 403} )
        => /\ procs[i].status = procs[j].status
           /\ procs[i].body = procs[j].body

\* public send request i passes both checks in this step
Authorized(i) ==
    /\ Checked(i)
    /\ procs[i].snap.webhook_enabled
    /\ procs[i].secret = procs[i].snap.webhook_secret

\* `to` when it contains '@', `to` followed by '@c.us' otherwise
ExpectedChatId(to) ==
    IF "@" \in { to[k] : k \in DOMAIN to } THEN to
    ELSE to \o << "@", "c.us" >>

\* the step makes one sendMessage call for request i on the registry's
\* handle of its user
Dispatch(i) ==
    sent' = Append(sent, [proc |-> i,
                          client |-> whatsappClients[procs[i].user],
                          call |-> "sendMessage",
                          chatId |-> ExpectedChatId(procs[i].to),
                          message |-> procs[i].message])

\* the sendMessage call of request i settles in this step
Settles(i) ==
    /\ procs[i].kind = "send" /\ procs[i].pc = "sending"
    /\ procs'[i].pc # "sending"

\* the step appends the 'outgoing' entry of request i
LogsOutgoing(i) ==
    webhook_logs' = Append(webhook_logs,
                           [proc |-> i, user_id |-> procs[i].user,
                            direction |-> "outgoing", status |-> "success",
                            payload |-> procs[i].message])

\* no request has more than one call and one log entry after the step
AtMostOnce ==
    \A i \in DOMAIN procs' :
        /\ Cardinality({ k \in DOMAIN sent' : sent'[k].proc = i }) <= 1
        /\ Cardinality({ k \in DOMAIN webhook_logs' :
                            webhook_logs'[k].proc = i }) <= 1

\* C14 as claimed: a public send request with a matching secret for an
\* enabled webhook results in exactly one sendMessage call, with the chat
\* id derived from `to`, and in exactly one 'outgoing' log entry
C14_AlwaysOneCallOneEntry ==
    [][ /\ AtMostOnce
        /\ \A i \in DOMAIN procs :
              /\ Authorized(i) => Dispatch(i)
              /\ Settles(i) => LogsOutgoing(i) ]_vars

\* C14 as amended: with a handle in the registry the request results in
\* exactly one sendMessage call on that handle, with the chat id derived
\* from `to`, and without a handle in no call and the answer 503; exactly
\* one 'outgoing' entry is appended when the call and the log write both
\* succeed, and none otherwise
C14_OneCallOneEntry ==
    [][ /\ AtMostOnce
        /\ \A i \in DOMAIN procs :
              /\ Authorized(i) =>
                    IF whatsappClients[procs[i].user] # 0
                    THEN Dispatch(i)
                    ELSE sent' = sent /\ procs'[i].status = 503
              /\ Settles(i) =>
                    IF procs'[i].pc = "log" /\ procs'[i].out = "ok"
                    THEN LogsOutgoing(i)
                    ELSE webhook_logs' = webhook_logs ]_vars

\* C14 witness: an authorized request for a bare number was answered 200
\* after one call with the suffixed chat id and one 'outgoing' entry
C14_Witness ==
    \E i \in DOMAIN procs :
        /\ procs[i].kind = "send" /\ procs[i].pc = "done"
        /\ procs[i].status = 200
        /\ procs[i].body.chatId = << "123", "@", "c.us" >>
        /\ \E k \in DOMAIN sent :
              sent[k].proc = i /\ sent[k].chatId = procs[i].body.chatId
        /\ \E k \in DOMAIN webhook_logs :
              webhook_logs[k].proc = i /\ webhook_logs[k].direction = "outgoing"

(***************************************************************************)
(* Properties of the requests that need a client (SpecCalls)               *)
(***************************************************************************)
DirectKinds == {"messages", "send_message", "send_media"}

\* request i of one of the three direct kinds starts in this step
StartsDirect(i) ==
    /\ i = Len(procs) + 1 /\ Len(procs') = i
    /\ procs'[i].kind \in DirectKinds

\* public send request i gets past its select in this step
LeavesSelect(i) ==
    /\ i \in DOMAIN procs
    /\ procs[i].kind = "send" /\ procs[i].pc = "select"
    /\ procs'[i].pc # "select"

\* what the step in which request i looks up the registry does: without a
\* handle the answer 503 and no call, with a handle one call on it
LooksUp(i) ==
    IF whatsappClients[procs'[i].user] = 0
    THEN /\ procs'[i].pc = "done" /\ procs'[i].status = 503
         /\ sent' = sent
    ELSE /\ procs'[i].status # 503
         /\ Len(sent') = Len(sent) + 1
         /\ sent'[Len(sent')].proc = i
         /\ sent'[Len(sent')].client = whatsappClients[procs'[i].user]

\* a request answered 503 in this step finds no handle and has made no call
Only503WithoutHandle ==
    \A i \in DOMAIN procs' :
        ( /\ procs'[i].pc = "done" /\ procs'[i].status = 503
          /\ (i \in DOMAIN procs => procs[i].pc # "done") )
        => /\ whatsappClients[procs'[i].user] = 0
           /\ \A k \in DOMAIN sent' : sent'[k].proc # i

\* C15 as claimed: every request of the four kinds is answered 503, with
\* no call on a client, when the registry holds no handle for its user, and
\* is never answered 503 when it holds one
C15_NoHandleAlways503 ==
    [][ /\ Only503WithoutHandle
        /\ \A i \in DOMAIN procs' :
              (StartsDirect(i) \/ LeavesSelect(i)) => LooksUp(i) ]_vars

\* C15 as amended: the same for the three direct kinds and for the public
\* send requests that have passed the enabled and the secret check
C15_NoHandle503 ==
    [][ /\ Only503WithoutHandle
        /\ \A i \in DOMAIN procs' :
              (StartsDirect(i) \/ (i \in DOMAIN procs /\ Authorized(i)))
                 => LooksUp(i) ]_vars

\* C15 witness: a direct request was answered 503 while the registry was
\* empty, and a later one was answered 200 after its call on the handle
C15_Witness ==
    \E i, j \in DOMAIN procs :
        /\ i < j
        /\ procs[i].kind \in DirectKinds /\ procs[j].kind \in DirectKinds
        /\ procs[i].pc = "done" /\ procs[i].status = 503
        /\ procs[j].pc = "done" /\ procs[j].status = 200
        /\ \E k \in DOMAIN sent :
              sent[k].proc = j /\ sent[k].client = procs[j].client

(***************************************************************************)
(* Properties of the session states (SpecSession)                          *)
(***************************************************************************)

\* what GET /qr reports of the session of u
Observed(u) == [qr |-> clientStates[u].qr, ready |-> clientStates[u].ready]

\* the report of a session that has not started pairing
LooksUninitialized(o) == o.qr = "" /\ ~o.ready

\* the report of a session that shows a pairing code
LooksAwaitingScan(o) == o.qr # "" /\ ~o.ready

\* C16: after an auth-failure callback of a user, with nothing started for
\* the user since, the session is observably different from an
\* uninitialized one and from one that awaits the scan
C16_AuthFailureObservable ==
    \A i \in DOMAIN procs :
        ( /\ procs[i].kind = "on_auth_failure"
          /\ \A k \in OfUser(procs[i].user) : k <= i )
        => /\ ~LooksUninitialized(Observed(procs[i].user))
           /\ ~LooksAwaitingScan(Observed(procs[i].user))

\* C17: a disconnect callback of a client of user u leaves the registry
\* and the clients as they are, sets the session of u, when there is one,
\* to not ready with an empty chat list, and leaves is_connected = false in
\* the row of u and the other rows unchanged
C17_DisconnectEffect ==
    [][ Starts("on_disconnected") =>
          LET u == procs'[Len(procs')].user IN
          /\ UNCHANGED << whatsappClients, clients, userWebhooks >>
          /\ clientStates' =
                IF clientStates[u].present
                THEN [clientStates EXCEPT ![u].ready = FALSE,
                                          ![u].chats = <<>>]
                ELSE clientStates
          /\ ~whatsapp_sessions'[u].is_connected
          /\ whatsapp_sessions' =
                [whatsapp_sessions EXCEPT ![u].is_connected = FALSE] ]_vars

\* C17 witness: a connected session with chats and a stored flag got a
\* disconnect callback: the registry still holds the client, the session
\* is not ready, its chat list is empty and the stored flag is false
C17_Witness ==
    \E i, j \in DOMAIN procs :
        /\ i < j
        /\ procs[i].kind = "on_ready" /\ procs[i].pc = "done"
        /\ procs[j].kind = "on_disconnected"
        /\ procs[j].client = procs[i].client
        /\ whatsappClients[procs[j].user] = procs[j].client
        /\ clientStates[procs[j].user].present
        /\ ~clientStates[procs[j].user].ready
        /\ clientStates[procs[j].user].chats = <<>>
        /\ whatsapp_sessions[procs[j].user].exists
        /\ ~whatsapp_sessions[procs[j].user].is_connected

\* the activations of u that change the state of its session: connected
\* and disconnect callbacks and teardowns
StateChanges(u) ==
    { i \in OfUser(u) :
         procs[i].kind \in {"on_ready", "on_disconnected", "logout"} }

\* C18: once all handlers of a user have completed, the stored flag
\* is_connected is true only if the last state change of the user was a
\* connected callback
C18_FlagFollowsLastChange ==
    \A u \in Users :
        ( /\ \A i \in OfUser(u) : procs[i].pc = "done"
          /\ whatsapp_sessions[u].is_connected )
        => /\ StateChanges(u) # {}
           /\ \A i \in StateChanges(u) :
                 (\A k \in StateChanges(u) : k <= i)
                    => procs[i].kind = "on_ready"

(***************************************************************************)
(* Properties of the error handling (SpecRelay, SpecErrors)                *)
(***************************************************************************)

\* C19: sendToWebhook never raises to its caller and never retries: every
\* delivery ends after one POST, the test request answered 200 and the
\* message listener without a rejection
C19_DeliverNeverRaises ==
    \A i \in Deliveries :
        /\ Cardinality({ k \in DOMAIN posts : posts[k].proc = i }) = 1
        /\ ~procs[i].rejected
        /\ procs[i].kind = "test" => procs[i].status = 200

\* the activations that are requests to an endpoint
RequestKinds ==
    {"qr", "logout", "configure", "get_config", "test", "send", "messages",
     "send_message", "send_media"}

\* C20: every request that has run to its end was answered, and its
\* handler did not end as an unhandled rejection
C20_EveryRequestAnswered ==
    \A i \in DOMAIN procs :
        (procs[i].kind \in RequestKinds /\ procs[i].pc = "done")
           => procs[i].status # 0 /\ ~procs[i].rejected

(***************************************************************************)
(* Properties of the callbacks' error handling (SpecSession)               *)
(***************************************************************************)
CallbackKinds == {"on_qr", "on_ready", "on_message", "on_disconnected"}

\* C21: no exception escapes a connection callback: no qr, ready, message
\* or disconnected handler ends as a rejected promise
C21_NoCallbackRejects ==
    \A i \in DOMAIN procs :
        procs[i].kind \in CallbackKinds => ~procs[i].rejected

(***************************************************************************)
(* Properties of the shutdown (SpecLifeFair)                               *)
(***************************************************************************)

\* C22: a termination signal calls destroy() on every handle the registry
\* holds when it arrives, and after a signal the process eventually exits
C22_ShutdownDestroysAndExits ==
    /\ [][ signals' > signals =>
             \A u \in Users :
                whatsappClients[u] # 0 =>
                   clients'[whatsappClients[u]].destroys
                      = clients[whatsappClients[u]].destroys + 1 ]_vars
    /\ (signals > 0) ~> exited

\* C22 witness: the process has exited after a signal that found a handle
\* in the registry and called destroy() on it
C22_Witness ==
    /\ exited /\ signals > 0 /\ boot.code = 0
    /\ \E u \in Users :
          /\ whatsappClients[u] # 0
          /\ clients[whatsappClients[u]].destroys > 0

(***************************************************************************)
(* Properties of the isolation of users (SpecIsolation)                    *)
(***************************************************************************)

\* the activations that start or move in this step
Acting ==
    { i \in DOMAIN procs' : i \notin DOMAIN procs \/ procs'[i] # procs[i] }

\* the step leaves what the server holds for user b as it is
Untouched(b) ==
    /\ whatsappClients'[b] = whatsappClients[b]
    /\ clientStates'[b] = clientStates[b]
    /\ userWebhooks'[b] = userWebhooks[b]
    /\ whatsapp_sessions'[b] = whatsapp_sessions[b]

\* C23: a step of a request or callback of one user leaves the registry
\* entry, the session state, the webhook cache entry and the stored row of
\* every other user unchanged
C23_UsersIsolated ==
    [][ \A i \in Acting :
          \A b \in Users \ {procs'[i].user} : Untouched(b) ]_vars

\* C23 witness: one user was torn down while the other user keeps its
\* registry entry and its session state
C23_Witness ==
    \E a, b \in Users :
        /\ a # b
        /\ whatsappClients[a] = 0 /\ ~clientStates[a].present
        /\ \E i \in DOMAIN procs :
              /\ procs[i].kind = "logout" /\ procs[i].user = a
              /\ procs[i].client # 0 /\ procs[i].pc # "logout"
        /\ whatsappClients[b] # 0 /\ clientStates[b].present

(***************************************************************************)
(* Properties of the authentication (SpecAuth)                             *)
(***************************************************************************)

\* C24: a request without a bearer token, or with a token the identity
\* provider rejects, is answered 401 by the middleware, and no step of the
\* middleware creates a session, dispatches a message or writes a record
C24_NoTokenNoEffect ==
    [][ \A i \in Acting :
          procs'[i].kind = "auth" =>
             /\ UNCHANGED << whatsappClients, clientStates, userWebhooks,
                             whatsapp_sessions, webhook_logs, clients,
                             posts, sent, nextSecret >>
             /\ (procs'[i].token # "valid" /\ procs'[i].pc = "done")
                   => procs'[i].status = 401
             /\ procs'[i].token \in {"none", "not_bearer"}
                   => procs'[i].pc = "done" ]_vars

\* C24 witness: a request without a token and a request with a rejected
\* token were both answered 401 while a session of the user exists
C24_Witness ==
    /\ \E u \in Users : whatsappClients[u] # 0
    /\ \E i, j \in DOMAIN procs :
          /\ procs[i].kind = "auth" /\ procs[j].kind = "auth"
          /\ procs[i].token = "none" /\ procs[j].token = "rejected"
          /\ procs[i].pc = "done" /\ procs[j].pc = "done"
          /\ procs[i].status = 401 /\ procs[j].status = 401

(***************************************************************************)
(* Properties of the status reports (SpecEvents)                           *)
(***************************************************************************)

\* a report with ready = true and no pairing image
LooksReady(o) == o.qr = "" /\ o.ready

\* C25: once a connected callback of a user has completed, and no
\* disconnect callback, teardown or later pairing-code callback of the user
\* has started, the state the status call reports is ready = true with no
\* pairing image
C25_ReadyUntilDisconnect ==
    \A u \in Users : \A j \in OfUser(u) :
        ( /\ procs[j].kind = "on_ready"
          /\ procs[j].pc = "done" /\ ~procs[j].rejected
          /\ \A k \in OfUser(u) :
                /\ procs[k].kind \notin {"on_disconnected", "logout"}
                /\ k > j => procs[k].kind # "on_qr" )
        => /\ clientStates[u].present
           /\ LooksReady(Observed(u))

(***************************************************************************)
(* Properties of the send text validation (SpecValidate)                   *)
(***************************************************************************)

\* the send text request that arrives in this step, within the budget of
\* the limiter
Arrives(i) ==
    /\ i = Len(procs) + 1 /\ i = Len(procs')
    /\ procs'[i].kind = "send_message"
    /\ ~OverBudget("send_message")

\* the request is not answered 400: it is answered 503, or sendMessage is
\* called once with the trimmed chat id and the trimmed message
Accepted(i) ==
    /\ procs'[i].status # 400
    /\ \/ procs'[i].status = 503 /\ sent' = sent
       \/ /\ procs'[i].pc = "calling"
          /\ Len(sent') = Len(sent) + 1
          /\ sent'[Len(sent')].proc = i
          /\ sent'[Len(sent')].chatId = TrimId(procs'[i].to)
          /\ sent'[Len(sent')].message = TrimText(procs'[i].text)

\* the request is answered 400 and no call is made
Refused(i) ==
    /\ procs'[i].pc = "done" /\ procs'[i].status = 400
    /\ sent' = sent

\* C26 as stated: the length of the message as sent and the chat id as
\* sent decide: a message of length 4097 or more is answered 400, a message
\* of length 1 to 4096 with a chat id of digits and hyphens followed by
\* @c.us or @g.us is accepted, and any other chat id is answered 400
C26_LengthAsSentDecides ==
    [][ \A i \in DOMAIN procs' :
          Arrives(i) =>
             LET n == Length(procs'[i].text)
                 c == procs'[i].to
             IN
             /\ n > MaxMessageLength => Refused(i)
             /\ ~Matches(c) => Refused(i)
             /\ (Matches(c) /\ n >= 1 /\ n <= MaxMessageLength)
                   => Accepted(i) ]_vars

\* C26: the message and the chat id are validated after white space around
\* them is removed: a request is answered 400, with no sendMessage call,
\* when the trimmed message is empty or longer than 4096 or when the
\* trimmed chat id is not made of digits and hyphens followed by @c.us or
\* @g.us, and is accepted otherwise, the trimmed values being the ones
\* passed to sendMessage
C26_TrimmedValuesDecide ==
    [][ \A i \in DOMAIN procs' :
          Arrives(i) =>
             LET n == procs'[i].text.core
                 c == TrimId(procs'[i].to)
             IN
             /\ (n = 0 \/ n > MaxMessageLength) => Refused(i)
             /\ ~Matches(c) => Refused(i)
             /\ (Matches(c) /\ n >= 1 /\ n <= MaxMessageLength)
                   => Accepted(i)
             /\ procs'[i].status = 400 => sent' = sent ]_vars

\* C26 witness: a message of 4097 characters whose last one is white space
\* is being sent, with 4096 characters
C26_Witness ==
    \E k \in DOMAIN sent :
        /\ procs[sent[k].proc].kind = "send_message"
        /\ procs[sent[k].proc].pc = "calling"
        /\ Length(procs[sent[k].proc].text) = MaxMessageLength + 1
        /\ Length(sent[k].message) = MaxMessageLength

(***************************************************************************)
(* Properties of the rate limiting (SpecLimits)                            *)
(***************************************************************************)

\* the budget of each send endpoint: the one of messageLimiter for the
\* authenticated endpoints, the one of webhookLimiter for the public one
SendBudget ==
    [send_message |-> messageLimiterMax, send_media |-> messageLimiterMax,
     send |-> webhookLimiterMax]

\* C27: a request that arrives at a send endpoint when the caller has
\* already made the endpoint's budget of requests in the current window
\* causes no sendMessage call
C27_OverBudgetNeverDispatches ==
    [][ \A i \in DOMAIN procs' :
          ( /\ i = Len(procs) + 1 /\ i = Len(procs')
            /\ procs'[i].kind \in CountedKinds
            /\ hits[procs'[i].kind] >= SendBudget[procs'[i].kind] )
          => sent' = sent ]_vars

(***************************************************************************)
(* Properties of the startup (SpecBootFair)                                *)
(***************************************************************************)

\* a required credential is absent from the environment
Absent == ~boot.SUPABASE_URL \/ ~boot.SUPABASE_SERVICE_ROLE_KEY

\* C28: when SUPABASE_URL or SUPABASE_SERVICE_ROLE_KEY is absent the
\* process never listens, serves no request and creates no client; it
\* exits, and its exit code is not zero
C28_NoStartWithoutCredentials ==
    /\ [](Absent => /\ ~boot.listening
                    /\ procs = << >> /\ clients = << >>
                    /\ exited => boot.code > 0)
    /\ [][Absent => exited' /\ boot'.code > 0]_vars
    /\ Absent ~> exited

\* C28 witness: with the URL set and the key absent the process has exited
\* with code 1
C28_Witness ==
    /\ boot.SUPABASE_URL /\ ~boot.SUPABASE_SERVICE_ROLE_KEY
    /\ exited /\ boot.code = 1

(***************************************************************************)
(* Properties of the teardown (SpecCalls, SpecLife)                        *)
(***************************************************************************)

\* a logout has called logout() on the handle and has not finished
InTeardown(h) ==
    \E j \in DOMAIN procs :
        /\ procs[j].kind = "logout" /\ procs[j].client = h
        /\ procs[j].pc \in {"logout", "update", "timer"}

\* a request other than a logout gets the handle in this step
Obtains(i, h) ==
    /\ procs'[i].kind \in {"qr", "send_message", "send_media", "messages",
                           "send"}
    /\ procs'[i].client = h
    /\ i \in DOMAIN procs => procs[i].client # h

\* C29: no status, send or list request obtains a handle on which a logout
\* in progress has called logout()
C29_NoHandleDuringTeardown ==
    [][ \A i \in DOMAIN procs' : \A h \in DOMAIN clients :
          InTeardown(h) => ~Obtains(i, h) ]_vars

\* C30: every logout request is answered success, and a logout that found
\* a handle has had destroy() called on it by the time its last step is
\* done
C30_TeardownCompletes ==
    \A i \in DOMAIN procs :
        (procs[i].kind = "logout" /\ procs[i].pc = "done")
        => /\ procs[i].status = 200
           /\ procs[i].client # 0 => clients[procs[i].client].destroys > 0

(***************************************************************************)
(* Properties of the session creation (SpecCreate)                         *)
(***************************************************************************)

\* the requests that use a session without creating one
UsingKinds ==
    {"chats", "messages", "send_message", "send_media", "configure", "test",
     "send"}

\* the step adds an entry for u to the registry or to the state map
AddsEntry(u) ==
    \/ whatsappClients[u] = 0 /\ whatsappClients'[u] # 0
    \/ ~clientStates[u].present /\ clientStates'[u].present

\* C31: an entry is added to the registry or to the state map only by a
\* step of a status call of that user; a status call for a user without a
\* registry entry constructs a client and sets a state record; and no step
\* of a list, send, configure, test or public send request changes the
\* registry or the state map
C31_OnlyStatusCreates ==
    [][ /\ \A u \in Users :
              AddsEntry(u) =>
                 \E i \in Acting : procs'[i].kind = "qr" /\ procs'[i].user = u
        /\ StartsQr =>
              LET u == procs'[Len(procs')].user IN
              whatsappClients[u] = 0 =>
                 /\ clientStates'[u].present
                 /\ Len(clients') = Len(clients) + 1
                 /\ procs'[Len(procs')].client = Len(clients')
        /\ \A i \in Acting :
              procs'[i].kind \in UsingKinds =>
                 UNCHANGED << whatsappClients, clientStates, clients >> ]_vars

\* C31 witness: a status call has created a session that is registered,
\* and a list chats request and a send text request were handled
C31_Witness ==
    /\ \E u \in Users : whatsappClients[u] # 0 /\ clientStates[u].present
    /\ \E i, j \in DOMAIN procs :
          /\ procs[i].kind = "chats" /\ procs[i].pc = "done"
          /\ procs[j].kind = "send_message"

(***************************************************************************)
(* Properties of the stored configuration (SpecConfig)                     *)
(***************************************************************************)

\* the webhook columns of a row
WebhookColumns(row) ==
    << row.exists, row.webhook_url, row.webhook_enabled, row.webhook_secret >>

\* configure call i gets the result of its select in this step
Writes(i) ==
    /\ i \in DOMAIN procs
    /\ procs[i].kind = "configure" /\ procs[i].pc = "select"
    /\ procs'[i].pc # "select"

C33_RegisteredHasState ==
    \A u \in Users : whatsappClients[u] # 0 => clientStates[u].present

(***************************************************************************)
(* Properties of the callbacks of old handles (SpecSession)                *)
(***************************************************************************)

\* C34: a callback that a handle fires while the registry holds another
\* handle for its user leaves the session state of the user as it is
C34_OldHandleLeavesState ==
    [][ \A i \in DOMAIN procs' :
          ( /\ i \notin DOMAIN procs
            /\ procs'[i].kind \in CallbackKinds
            /\ whatsappClients[procs'[i].user] # 0
            /\ whatsappClients[procs'[i].user] # procs'[i].client )
          => clientStates'[procs'[i].user] = clientStates[procs'[i].user]
       ]_vars

(***************************************************************************)
(* Properties of the webhook cache (SpecCache)                             *)
(***************************************************************************)

\* the stored configuration of u is enabled with a url, a configure call of
\* u was answered 200 and none is in progress
Configured(u) ==
    /\ whatsapp_sessions[u].webhook_enabled
    /\ whatsapp_sessions[u].webhook_url # ""
    /\ \E j \in OfUser(u) :
          /\ procs[j].kind = "configure"
          /\ procs[j].pc = "done" /\ procs[j].status = 200
    /\ \A j \in OfUser(u) :
          procs[j].kind = "configure" => procs[j].pc = "done"

\* C35: once an enabling configure call of a user has succeeded, a test
\* delivery for the user performs an outbound POST, also after a logout of
\* the user
C35_ConfiguredDeliveryPosts ==
    [][ (Starts("test") /\ Configured(procs'[Len(procs')].user))
           => /\ Len(posts') = Len(posts) + 1
              /\ posts'[Len(posts')].user = procs'[Len(procs')].user ]_vars

(***************************************************************************)
(* Invariants of the session state (SpecEvents)                            *)
(***************************************************************************)

\* C36: a session that is ready holds no pairing code, and no status call
\* is answered ready = true together with a pairing image
C36_ReadyHasNoQr ==
    /\ \A u \in Users : clientStates[u].ready => clientStates[u].qr = ""
    /\ \A i \in DOMAIN procs :
          (procs[i].kind = "qr" /\ procs[i].body.ready) => procs[i].body.qr = ""

\* C36 witness: a session is ready after a qr callback of its client has
\* written a pairing image and a ready callback has followed
C36_Witness ==
    \E i, j \in DOMAIN procs :
        /\ procs[i].kind = "on_qr" /\ procs[i].pc = "done"
        /\ ~procs[i].rejected
        /\ procs[j].kind = "on_ready" /\ procs[j].client = procs[i].client
        /\ i < j
        /\ clientStates[procs[j].user].ready

\* C37: a session with a non-empty cached chat list is ready
C37_ChatsOnlyWhenReady ==
    \A u \in Users : clientStates[u].chats # << >> => clientStates[u].ready

(***************************************************************************)
(* Properties of the order of teardown (SpecLife)                          *)
(***************************************************************************)

\* destroy() is called on handle h in this step, not by the shutdown
Destroys(h) ==
    /\ clients'[h].destroys > clients[h].destroys
    /\ signals' = signals

\* C38: outside shutdown, destroy() is called on a handle only by the
\* timer of a logout that holds the handle and has deleted the registry
\* entry and issued the update of is_connected, and the handle is then not
\* the registry entry of any user
C38_DestroyAfterRemoval ==
    [][ \A h \in DOMAIN clients :
          Destroys(h) =>
             /\ \E i \in DOMAIN procs :
                   /\ procs[i].kind = "logout" /\ procs[i].client = h
                   /\ procs[i].pc = "timer" /\ procs'[i].pc = "done"
             /\ h \in TornDown
             /\ h \notin Registered
             /\ \A u \in Users : whatsappClients'[u] # h ]_vars

\* C38 witness: the timer of a logout has destroyed its handle while the
\* registry holds the handle of a session created after the removal
C38_Witness ==
    \E i \in DOMAIN procs :
        /\ procs[i].kind = "logout" /\ procs[i].pc = "done"
        /\ procs[i].client # 0
        /\ clients[procs[i].client].destroys = 1
        /\ whatsappClients[procs[i].user] \notin {0, procs[i].client}

====
